---- MODULE Spec2Model ----
(***************************************************************************)
(* Verification model of the imagery route handlers of the satellite image *)
(* receiver:                                                               *)
(*   - the NASA Earth handler  GET /api/fetch-image    (provider A)        *)
(*   - the NASA GIBS handler   GET .../gibs            (provider C),       *)
(*     with its tile grid, concurrent tile fetches and stitching,          *)
(*   - the Copernicus handlers POST .../copernicus-availability and        *)
(*     GET /api/fetch-copernicus-image  (provider B),                      *)
(*   - the page InteractiveMapExplorer that calls them: its state, its     *)
(*     Check Availability and Fetch Image handlers and the user's clicks.  *)
(* Every upstream answer is an input chosen by the environment.            *)
(***************************************************************************)
EXTENDS Integers, Sequences, FiniteSets, TLC

----------------------------------------------------------------------------
(* Bounds of the model *)

\* dates are day numbers 1..MaxDate; the handler only compares them as strings
MaxDate == 3
\* longest date list an assets answer carries
MaxLen == 2

Dates == 1..MaxDate

DateLists == UNION {[1..n -> Dates] : n \in 0..MaxLen}

\* largest zoom level (and tile index 2^MaxZoom - 1) of a request
MaxZoom == 1
\* largest grid side whose tile fetches are interleaved one by one
MaxSide == 2

\* upstream non-success statuses (rate limit, server error)
ErrorStatuses == {429, 503}

\* `let closestDate = null`
NULL == 0

\* the number a non-numeric text parses to; it lies outside every numeric
\* domain of the model
NaN == -999999

\* longest scene list an availability answer carries
MaxScenes == 3
\* number of runs of the page's handlers that wait for an answer at once
MaxOps == 1

\* instants are counted in half days: day d starts at 2 * d (UTC midnight,
\* what a date-only text parses to) and has one more instant at noon
Timestamps == {2 * d + h : d \in Dates, h \in {0, 1}}

VARIABLES
    \* ---- provider A handler (GET fetch-image) ----
    pc,               \* position of the handler
    date,             \* searchParams.get('date')
    assetsError,
    availableDates,   \* dates of the exact-date assets answer
    closestDate,
    availableDates7,  \* dates of the +-7 day assets answer
    calls,            \* upstream calls issued so far, in order
    response,         \* the response returned to the caller
    \* ---- GIBS handler (GET, tile fetch or stitched image) ----
    gpc,              \* position of the handler
    request,          \* the z, x, y and resolution query parameters
    tilePromises,     \* tiles whose fetch was issued, in issue order
    tileState,        \* per issued fetch: pending, ok, status or error
    sharpTakesRaw,    \* whether sharp decodes the header-less placeholder
    gibsResponse,     \* the response returned to the caller
    \* ---- provider B handlers (availability POST, image GET) ----
    cpc,              \* position of the handler
    copRequest,       \* route and parameters of the request
    accessToken,      \* the token this call obtained
    copCalls,         \* upstream calls issued so far, in order
    copResponse,      \* the response returned to the caller
    \* ---- the page (InteractiveMapExplorer) ----
    source,           \* 'nasa', 'gibs' or 'copernicus'
    center,           \* [lat, lon] of the marker
    uiDate,           \* the `date` state
    cloudCoverFilter,
    availability,
    errorMsg,
    availableScenes,
    selectedScene,    \* <<>> for null, <<scene>> otherwise
    imageUrl,
    imageMeta,
    fetchingImage,
    gibsPreviewUrl,   \* <<>> for null, <<tile request>> for its blob
    gibsPreviewError,
    gibsActualDate,   \* <<>> for null, <<date>> otherwise
    uiAvailableDates, \* the `availableDates` state (NASA)
    uiClosestDate,    \* the `closestDate` state (NASA); <<>> for null
    prevAvailable,
    nextAvailable,
    ops,              \* handler runs waiting for an answer, each with
                      \* the state it captured and the request it issued
    returned,         \* scenes availability answers have carried
    completed,        \* the run and answer the last step completed, and
                      \* the position the run had among the runs in flight
    \* the continuation of a check on its own
    job,              \* the answer it received and the settings it captured
    result,           \* what it computes from them
    \* ---- the handlers' log file ----
    events,           \* log entries appended and upstream fetches issued by
                      \* the handler serving the current request, in order
    appendFails       \* fs.appendFile on the log file rejects

nasaVars == <<pc, date, assetsError, availableDates, closestDate,
              availableDates7, calls, response>>

gibsVars == <<gpc, request, tilePromises, tileState, sharpTakesRaw,
              gibsResponse>>

copVars == <<cpc, copRequest, accessToken, copCalls, copResponse>>

uiVars == <<source, center, uiDate, cloudCoverFilter, availability, errorMsg,
            availableScenes, selectedScene, imageUrl, imageMeta,
            fetchingImage, gibsPreviewUrl, gibsPreviewError, gibsActualDate,
            uiAvailableDates, uiClosestDate, prevAvailable, nextAvailable,
            ops, returned, completed>>

scanVars == <<job, result>>

vars ==
    <<nasaVars, gibsVars, copVars, uiVars, scanVars, events, appendFails>>

\* what the actions of one handler leave alone
exceptNasa == <<gibsVars, copVars, uiVars, scanVars, appendFails>>
exceptGibs == <<nasaVars, copVars, uiVars, scanVars, appendFails>>
exceptCopernicus == <<nasaVars, gibsVars, uiVars, scanVars, appendFails>>
exceptPage == <<nasaVars, gibsVars, copVars, scanVars, events, appendFails>>

----------------------------------------------------------------------------
(* Helpers *)

\* Array.prototype.includes
includes(s, e) == \E i \in DOMAIN s : s[i] = e

\* `a || b` on a date value: null (and every falsy value) gives b
OrElse(a, b) == IF a = NULL THEN b ELSE a

\* a line appended to logs/api-requests.log, named by its fixed text
Log(text) == <<"log", text>>

\* an upstream fetch issued by a handler
Fetch(to) == <<"fetch", to>>

\* variant of appendLog that lets the failure of fs.appendFile escape
appendLogM(fails) == IF fails THEN "rejected" ELSE "resolved"

\* `try { await fs.appendFile(logFilePath, message + '\n') } catch (error)
\* { console.error(...) }` : how the promise of an appendLog call settles
\* when fs.appendFile rejects or not
appendLog(fails) == "resolved"

----------------------------------------------------------------------------
(* Upstream answers to an assets query *)

\* type: "throw"      fetch or text() rejected
\*       "status"     a response with a non-success status
\*       "unparsable" status ok, JSON.parse (or the map over results) throws
\*       "ok"         status ok, body {results: [{date}, ...]}
AssetsAnswers ==
    [type : {"throw"}, status : {0}, results : {<<>>}]
      \cup [type : {"status"}, status : ErrorStatuses, results : {<<>>}]
      \cup [type : {"unparsable"}, status : {200}, results : {<<>>}]
      \cup [type : {"ok"}, status : {200}, results : DateLists]

\* type: "throw" fetch (or blob()) rejected, "status" non-success, "ok" image
ImageAnswers ==
    [type : {"throw"}, status : {0}, results : {<<>>}]
      \cup [type : {"status"}, status : ErrorStatuses, results : {<<>>}]
      \cup [type : {"ok"}, status : {200}, results : {<<>>}]

----------------------------------------------------------------------------
(* Responses of the provider A handler *)

NoResponse ==
    [kind |-> "none", status |-> 0, meta |-> NULL, dates |-> <<>>,
     closest |-> NULL]

\* variant of ImageResponse that leaves the x-nasa-available-dates header out
ImageResponseM(metadata, dates7) ==
    [kind |-> "image", status |-> 200, meta |-> metadata, dates |-> <<>>,
     closest |-> NULL]

\* new NextResponse(imageBlob, {headers: x-image-metadata, x-nasa-available-dates})
ImageResponse(metadata, dates7) ==
    [kind |-> "image", status |-> 200, meta |-> metadata, dates |-> dates7,
     closest |-> NULL]

\* variant of ImageErrorResponse that answers with the 404 payload instead
ImageErrorResponseM(st) ==
    [kind |-> "unavailable", status |-> 404, meta |-> NULL, dates |-> <<>>,
     closest |-> NULL]

\* NextResponse.json({error: 'Failed to fetch NASA image.'}, {status})
ImageErrorResponse(st) ==
    [kind |-> "error", status |-> st, meta |-> NULL, dates |-> <<>>,
     closest |-> NULL]

\* NextResponse.json({error, availableDates: availableDates7, closestDate}, 404)
UnavailableResponse(dates7, closest) ==
    [kind |-> "unavailable", status |-> 404, meta |-> NULL, dates |-> dates7,
     closest |-> closest]

----------------------------------------------------------------------------
(* GIBS handler: request parameters and tile grid *)

\* a query parameter is <<>> when absent and <<n>> when it carries n
Param(S) == {<<>>} \cup {<<n>> : n \in S}

\* parseInt(searchParams.get(name) || dflt, 10)
parseIntOr(p, dflt) == IF p = <<>> THEN dflt ELSE p[1]

DefaultZ == 8
DefaultXY == 0
DefaultResolution == 256
TileSize == 256

z == parseIntOr(request.z, DefaultZ)
x == parseIntOr(request.x, DefaultXY)
y == parseIntOr(request.y, DefaultXY)
resolution == parseIntOr(request.resolution, DefaultResolution)

\* `!z && !x && !y` : 0 is the falsy number
MissingCoordinates == z = 0 /\ x = 0 /\ y = 0

\* variant of tilesPerSide that rounds with floor + 1
tilesPerSideM(r) == r \div TileSize + 1

\* Math.ceil(resolution / 256) for a positive integer
tilesPerSide(r) == (r + TileSize - 1) \div TileSize

\* variant of half that centres an even grid on the other side
halfM(n) == (n - 1) \div 2

\* Math.floor(tilesPerSide / 2)
half(n) == n \div 2

\* `new Date().toISOString().slice(0, 10)`: the day the request is served
Today == MaxDate

\* a handler that addresses every tile with the date of the day
tileDateM == Today

\* `searchParams.get('date') || today`
tileDate == IF request.date = <<>> THEN Today ELSE request.date[1]

\* a tile address .../default/{date}/.../{z}/{tileY}/{tileX}.jpg
Tile(tz, tx, ty) == <<tz, tx, ty, tileDate>>

\* the fetches pushed by the loops `for dy ... for dx ...`, in push order
TileGrid ==
    LET n == tilesPerSide(resolution)
        startX == x - half(n)
        startY == y - half(n)
    IN  [k \in 1..(n * n) |->
            Tile(z, startX + ((k - 1) % n), startY + ((k - 1) \div n))]

----------------------------------------------------------------------------
(* GIBS handler: stitching *)

\* Buffer.alloc(256 * 256 * 3, 0xff), the substitute of a failed tile
Placeholder == <<>>

\* images[dy][dx]: `tileBuffers[idx] ? tileBuffers[idx] : placeholder`, the
\* bytes of a tile being named by its address
ImageRow(dy, n) ==
    [dx \in 0..(n - 1) |->
        IF tileState[dy * n + dx + 1] = "ok"
          THEN tilePromises[dy * n + dx + 1] ELSE Placeholder]

\* variant of StitchRow that lays the row out from right to left
StitchRowM(dy, n) ==
    {[left |-> (n - 1 - i) * TileSize, top |-> 0, src |-> ImageRow(dy, n)[i]] :
        i \in 0..(n - 1)}

\* one stitched row: row[i] composited at left = i * 256, top = 0
StitchRow(dy, n) ==
    {[left |-> i * TileSize, top |-> 0, src |-> ImageRow(dy, n)[i]] :
        i \in 0..(n - 1)}

\* the canvas: stitched row i composited at left = 0, top = i * 256
StitchRows(n) ==
    UNION {{[left |-> c.left, top |-> c.top + i * TileSize, src |-> c.src] :
              c \in StitchRow(i, n)} : i \in 0..(n - 1)}

NoGibsResponse ==
    [kind |-> "none", status |-> 0, canvas |-> 0, width |-> 0, height |-> 0,
     cells |-> {}]

GibsError(st) ==
    [kind |-> "error", status |-> st, canvas |-> 0, width |-> 0, height |-> 0,
     cells |-> {}]

\* canvas of side 256 * tilesPerSide, then .resize(resolution, resolution)
StitchedImage(n, r) ==
    [kind |-> "image", status |-> 200, canvas |-> TileSize * n,
     width |-> r, height |-> r, cells |-> StitchRows(n)]

\* the bytes of one upstream tile, returned as they are
SingleTileImage(t) ==
    [kind |-> "image", status |-> 200, canvas |-> TileSize,
     width |-> TileSize, height |-> TileSize,
     cells |-> {[left |-> 0, top |-> 0, src |-> t]}]

----------------------------------------------------------------------------
(* Provider B: catalog features, upstream answers and handler responses *)

\* parseFloat(searchParams.get(name) || dflt); a non-numeric text gives NaN
parseFloatOr(p, dflt) == IF p = <<>> THEN dflt ELSE p[1]

isNaN(v) == v = NaN

\* `resolution = parseInt(searchParams.get('resolution') || '1024', 10)`
DefaultCopernicusResolution == 1024

\* eo:cloud_cover percentages a catalog feature may carry
CloudCovers == {10, 50, 90}

\* the features of a catalog answer, each with properties.datetime and
\* properties['eo:cloud_cover'] (<<>> when the property is missing); the
\* handler maps the features one by one
FeatureLists ==
    {<<>>} \cup {<<f>> : f \in [datetime : Param(Timestamps),
                                eo_cloud_cover : Param(CloudCovers)]}

\* (catalogData.features || []).map(f => ({datetime, cloudCover, ...}))
ScenesOf(features) ==
    [i \in DOMAIN features |->
        [datetime |-> features[i].datetime,
         cloudCover |-> features[i].eo_cloud_cover]]

Tokens == {"t1", "t2"}

\* answers of the identity endpoint; an ok body without access_token gives
\* the token "undefined"
TokenAnswers ==
    [type : {"throw"}, status : {0}, token : {"none"}]
      \cup [type : {"status"}, status : ErrorStatuses, token : {"none"}]
      \cup [type : {"unparsable"}, status : {200}, token : {"none"}]
      \cup [type : {"ok"}, status : {200}, token : Tokens \cup {"undefined"}]

CatalogAnswers ==
    [type : {"throw"}, status : {0}, features : {<<>>}]
      \cup [type : {"status"}, status : ErrorStatuses, features : {<<>>}]
      \cup [type : {"unparsable"}, status : {200}, features : {<<>>}]
      \cup [type : {"ok"}, status : {200}, features : FeatureLists]

ProcessAnswers ==
    [type : {"throw"}, status : {0}]
      \cup [type : {"status"}, status : ErrorStatuses]
      \cup [type : {"ok"}, status : {200}]

\* an upstream call of a provider B handler: the endpoint, the answer's type
\* and status, the token (returned by the identity endpoint, or sent as
\* Bearer to the others) and the process request's timeRange (from = to)
CopCall(endpoint, a, token, time) ==
    [endpoint |-> endpoint, type |-> a.type, status |-> a.status,
     token |-> token, time |-> time]

NoCopResponse ==
    [kind |-> "none", status |-> 0, error |-> "", scenes |-> <<>>]

\* NextResponse.json({ scenes })
ScenesResponse(scenes) ==
    [kind |-> "scenes", status |-> 200, error |-> "", scenes |-> scenes]

\* NextResponse.json({ error }, { status })
CopError(msg, st) ==
    [kind |-> "error", status |-> st, error |-> msg, scenes |-> <<>>]

\* new NextResponse(imageBlob, {headers: {'Content-Type': 'image/png'}})
CopImage ==
    [kind |-> "image", status |-> 200, error |-> "", scenes |-> <<>>]

CopernicusIdle ==
    /\ cpc = "idle"
    /\ copRequest =
          [route |-> "none", date |-> <<>>, acquisitionTime |-> <<>>,
           lat |-> <<>>, lon |-> <<>>, resolution |-> <<>>,
           clientId |-> FALSE, clientSecret |-> FALSE]
    /\ accessToken = "none"
    /\ copCalls = <<>>
    /\ copResponse = NoCopResponse

----------------------------------------------------------------------------
(* The page: closest-date scan and cloud cover filter *)

\* new Date(date).getTime() of a date-only text: UTC midnight of that day
getTimeOfDate(d) == 2 * d

\* new Date(scene.datetime).getTime(): NaN when datetime is missing
getTime(p) == IF p = <<>> THEN NaN ELSE p[1]

\* datetime.slice(0, 10): the day of an instant
DayOf(t) == t \div 2

\* Math.abs(a - b)
AbsDiff(a, b) ==
    IF a = NaN \/ b = NaN THEN NaN ELSE IF a >= b THEN a - b ELSE b - a

\* variant of Less that also lets an equal difference replace the closest
LessM(a, b) == a # NaN /\ b # NaN /\ a <= b

\* `diff < minDiff`: false as soon as one side is NaN
Less(a, b) == a # NaN /\ b # NaN /\ a < b

\* the loop `for (const d of list) { diff = ...; if (diff < minDiff) {...} }`
\* from entry i on; closest is the index of the entry held so far
RECURSIVE Scan(_, _, _, _, _)
Scan(times, requested, i, closest, minDiff) ==
    IF i > Len(times) THEN closest
    ELSE LET diff == AbsDiff(times[i], requested)
         IN  IF Less(diff, minDiff)
               THEN Scan(times, requested, i + 1, i, diff)
               ELSE Scan(times, requested, i + 1, closest, minDiff)

\* `closest = list[0]; minDiff = |t(list[0]) - requested|;` then the loop
ClosestIndex(times, requested) ==
    Scan(times, requested, 1, 1, AbsDiff(times[1], requested))

\* the instants of a list of calendar dates
TimesOfDates(dates) == [i \in DOMAIN dates |-> getTimeOfDate(dates[i])]

\* the instants of a list of scenes
TimesOfScenes(scenes) == [i \in DOMAIN scenes |-> getTime(scenes[i].datetime)]

\* `a ?? b`
Coalesce(p, dflt) == IF p = <<>> THEN dflt ELSE p[1]

\* `(s.cloudCover ?? 100)`
MissingCloudCover == 100

\* `dataFilter: { maxCloudCoverage: 20 }` of the process request
maxCloudCoverage == 20

\* variant of passes that excludes a scene exactly at the threshold
passesM(scene, threshold) ==
    Coalesce(scene.cloudCover, MissingCloudCover) < threshold

\* `(s.cloudCover ?? 100) <= cloudCoverFilter`
passes(scene, threshold) ==
    Coalesce(scene.cloudCover, MissingCloudCover) <= threshold

\* Array.prototype.filter: the passing scenes, in their order
RECURSIVE filter(_, _)
filter(scenes, threshold) ==
    IF scenes = <<>> THEN <<>>
    ELSE IF passes(Head(scenes), threshold)
      THEN <<Head(scenes)>> \o filter(Tail(scenes), threshold)
      ELSE filter(Tail(scenes), threshold)

----------------------------------------------------------------------------
(* The page: its state, the requests it issues and the answers it reads *)

\* `defaultCenter` (Athens), in whole degrees
DefaultCenter == [lat |-> 38, lon |-> 24]

\* markers the user can set: Athens, and a click on a map copy beyond the
\* antimeridian, where Leaflet reports an unwrapped longitude
Points == {DefaultCenter, [lat |-> 0, lon |-> 190]}

\* positions of the cloud cover slider
CloudFilters == {5, 40, 100}

\* `const z = 8`
PreviewZoom == 8

\* Math.floor((lon + 180) / 360 * n)
TileX(lon) == ((lon + 180) * 2^PreviewZoom) \div 360

\* Math.floor((1 - Math.log(Math.tan(lat * PI / 180)
\*                          + 1 / Math.cos(lat * PI / 180)) / PI) / 2 * n)
\* at n = 2^8, tabulated for the latitudes of Points
TileY(lat) == CASE lat = 38 -> 98
                [] lat = 0 -> 128

NoTileUrl == [date |-> NULL, z |-> 0, x |-> 0, y |-> 0, resolution |-> <<>>]

\* `/api/fetch-gibs-image?layer=..&date=${date}&z=${z}&x=${x}&y=${y}`,
\* with `&resolution=${resolution}` for the high-res image
TileUrl(d, c, res) ==
    [date |-> d, z |-> PreviewZoom, x |-> TileX(c.lon), y |-> TileY(c.lat),
     resolution |-> res]

\* a request of the page: the route, the date or acquisitionTime parameter,
\* the tile address and the marker the request was built from
Req(to, d, acq, tile, c) ==
    [to |-> to, date |-> d, acquisitionTime |-> acq, tileUrl |-> tile,
     center |-> c]

\* what the page reads of an answer: res.ok or not (or a rejected fetch or
\* json()), and the scenes, availableDates and closestDate of the body
Reply(type, st, scenes, dates, closest) ==
    [type |-> type, status |-> st, scenes |-> scenes, dates |-> dates,
     closest |-> closest]

Unreachable == Reply("throw", 0, <<>>, <<>>, <<>>)

\* the answer of the availability route as the page reads it
FromCopernicus(r) ==
    Reply(IF r.status = 200 THEN "ok" ELSE "status", r.status, r.scenes,
          <<>>, <<>>)

\* a run of a handler: what its closure captured of the state and still
\* reads after an await (only a check reads cloudCoverFilter), the tile
\* address it built, where it waits, and the request it waits for
Op(kind, stage, tile, req) ==
    [kind |-> kind, stage |-> stage, source |-> source, center |-> center,
     date |-> uiDate,
     cloudCoverFilter |-> IF kind = "check" THEN cloudCoverFilter ELSE 0,
     tileUrl |-> tile, req |-> req]

NoCompletion ==
    [op |-> [kind |-> "none", stage |-> "none", source |-> "nasa",
             center |-> DefaultCenter, date |-> NULL, cloudCoverFilter |-> 0,
             tileUrl |-> NoTileUrl,
             req |-> Req("none", <<>>, <<>>, NoTileUrl, DefaultCenter)],
     reply |-> Reply("none", 0, <<>>, <<>>, <<>>), index |-> 0]

\* s without its i-th entry
Remove(s, i) == SubSeq(s, 1, i - 1) \o SubSeq(s, i + 1, Len(s))

settings == <<source, center, uiDate, cloudCoverFilter>>
nasaPanel == <<uiAvailableDates, uiClosestDate, prevAvailable, nextAvailable>>
gibsPanel == <<gibsPreviewUrl, gibsPreviewError, gibsActualDate>>

\* the page as constructed, with the given settings
PageWith(src, c, d, f) ==
    /\ source = src
    /\ center = c
    /\ uiDate = d
    /\ cloudCoverFilter = f
    /\ availability = "null"
    /\ errorMsg = "null"
    /\ availableScenes = <<>>
    /\ selectedScene = <<>>
    /\ imageUrl = "null"
    /\ imageMeta = "null"
    /\ fetchingImage = FALSE
    /\ gibsPreviewUrl = <<>>
    /\ gibsPreviewError = "null"
    /\ gibsActualDate = <<>>
    /\ uiAvailableDates = <<>>
    /\ uiClosestDate = <<>>
    /\ prevAvailable = <<>>
    /\ nextAvailable = <<>>
    /\ ops = <<>>
    /\ returned = {}
    /\ completed = NoCompletion

\* `useState(100)`
DefaultCloudCoverFilter == 100

\* a continuation's input: the scenes or the dates of the answer, and the
\* date and cloud cover threshold the run captured
Job(kind, scenes, dates, d, threshold) ==
    [kind |-> kind, scenes |-> scenes, dates |-> dates, date |-> d,
     threshold |-> threshold]

\* a continuation's output: the filtered scenes, the selected scene and the
\* actual date
Result(done, filtered, selected, actual) ==
    [done |-> done, filtered |-> filtered, selected |-> selected,
     actualDate |-> actual]

NoResult == Result(FALSE, <<>>, <<>>, <<>>)

ScanIdle == job = Job("none", <<>>, <<>>, NULL, 0) /\ result = NoResult

\* the page untouched
PageIdle == PageWith("nasa", DefaultCenter, 1, DefaultCloudCoverFilter)

----------------------------------------------------------------------------
(* GIBS handler, the default branch (tile fetch or high-res image) *)

NoGibsRequest ==
    [z |-> <<>>, x |-> <<>>, y |-> <<>>, resolution |-> <<>>, date |-> <<>>]

GibsIdle ==
    /\ gpc = "idle"
    /\ request = NoGibsRequest
    /\ tilePromises = <<>>
    /\ tileState = <<>>
    /\ sharpTakesRaw = FALSE
    /\ gibsResponse = NoGibsResponse

NasaIdle ==
    /\ pc = "idle"
    /\ date = NULL
    /\ assetsError = FALSE
    /\ availableDates = <<>>
    /\ closestDate = NULL
    /\ availableDates7 = <<>>
    /\ calls = <<>>
    /\ response = NoResponse

\* requested resolutions: below, at and above one tile, multiples or not
Resolutions == {100, 256, 300, 512, 600, 1024, 2048}

InitGibsWith(Requests) ==
    /\ NasaIdle
    /\ CopernicusIdle
    /\ PageIdle
    /\ ScanIdle
    /\ events = <<>>
    /\ appendFails = FALSE
    /\ gpc = "start"
    /\ request \in Requests
    /\ tilePromises = <<>>
    /\ tileState = <<>>
    /\ sharpTakesRaw \in BOOLEAN
    /\ gibsResponse = NoGibsResponse

\* `if (!z && !x && !y)` : 400 Missing tile coordinates
GibsReject ==
    /\ gpc = "start"
    /\ MissingCoordinates
    /\ gibsResponse' = GibsError(400)
    /\ events' = <<Log("GIBS API REQUEST"), Log("GIBS API ERROR")>>
    /\ gpc' = "done"
    /\ UNCHANGED <<request, tilePromises, tileState, sharpTakesRaw>>
    /\ UNCHANGED exceptGibs

\* resolution > 256: every tile fetch of the grid is issued, then the
\* handler awaits Promise.all(tilePromises)
GibsFanOut ==
    /\ gpc = "start"
    /\ ~MissingCoordinates
    /\ resolution > TileSize
    /\ tilePromises' = TileGrid
    /\ tileState' = [k \in DOMAIN TileGrid |-> "pending"]
    /\ events' =
          <<Log("GIBS API REQUEST")>> \o [k \in DOMAIN TileGrid |-> Fetch("tile")]
    /\ gpc' = "await"
    /\ UNCHANGED <<request, sharpTakesRaw, gibsResponse>>
    /\ UNCHANGED exceptGibs

\* one tile fetch settles; fetches left in flight by an early response still
\* settle afterwards and are discarded
TileSettle ==
    /\ gpc \in {"await", "done"}
    /\ \E k \in DOMAIN tileState, o \in {"ok", "status", "error"} :
          /\ tileState[k] = "pending"
          /\ tileState' = [tileState EXCEPT ![k] = o]
    /\ UNCHANGED <<gpc, request, tilePromises, sharpTakesRaw, gibsResponse,
                   events>>
    /\ UNCHANGED exceptGibs

SomePlaceholder == \E k \in DOMAIN tileState : tileState[k] # "ok"

\* Promise.all fulfilled: build the rows, stitch, resize, answer; sharp
\* throwing on an input lands in the catch (500)
GibsStitch ==
    /\ gpc = "await"
    /\ \A k \in DOMAIN tileState : tileState[k] \in {"ok", "status"}
    /\ gibsResponse' =
          IF SomePlaceholder /\ ~sharpTakesRaw
            THEN GibsError(500)
            ELSE StitchedImage(tilesPerSide(resolution), resolution)
    /\ events' =
          Append(events, IF SomePlaceholder /\ ~sharpTakesRaw
                           THEN Log("GIBS STITCH ERROR")
                           ELSE Log("GIBS STITCHED IMAGE"))
    /\ gpc' = "done"
    /\ UNCHANGED <<request, tilePromises, tileState, sharpTakesRaw>>
    /\ UNCHANGED exceptGibs

\* Promise.all rejected by the first rejected fetch: catch, 500
GibsStitchError ==
    /\ gpc = "await"
    /\ \E k \in DOMAIN tileState : tileState[k] = "error"
    /\ gibsResponse' = GibsError(500)
    /\ events' = Append(events, Log("GIBS STITCH ERROR"))
    /\ gpc' = "done"
    /\ UNCHANGED <<request, tilePromises, tileState, sharpTakesRaw>>
    /\ UNCHANGED exceptGibs

\* resolution <= 256: fetch the single tile and return its bytes
GibsSingle ==
    /\ gpc = "start"
    /\ ~MissingCoordinates
    /\ ~(resolution > TileSize)
    /\ \E a \in ImageAnswers :
          /\ tilePromises' = <<Tile(z, x, y)>>
          /\ tileState' = <<IF a.type = "throw" THEN "error" ELSE a.type>>
          /\ gibsResponse' =
                CASE a.type = "ok" -> SingleTileImage(Tile(z, x, y))
                  [] a.type = "status" -> GibsError(a.status)
                  [] OTHER -> GibsError(500)
          /\ events' =
                <<Log("GIBS API REQUEST"), Log("GIBS TILE URL"), Fetch("tile")>>
                  \o (CASE a.type = "ok" -> <<>>
                        [] a.type = "status" -> <<Log("GIBS TILE ERROR")>>
                        [] OTHER -> <<Log("GIBS TILE FETCH ERROR")>>)
    /\ gpc' = "done"
    /\ UNCHANGED <<request, sharpTakesRaw>>
    /\ UNCHANGED exceptGibs

\* resolutions whose grid side is at most MaxSide
SmallResolutions == {r \in Resolutions : tilesPerSide(r) <= MaxSide}

\* requests of the interleaved specification: zoom 0 or the default zoom,
\* tile column 0 (default) or 1, small grids
InterleavedRequests ==
    [z : Param({0}), x : Param({1}), y : {<<0>>},
     resolution : Param(SmallResolutions), date : {<<1>>}]

InitGibs == InitGibsWith(InterleavedRequests)

NextGibs ==
    GibsReject \/ GibsFanOut \/ TileSettle \/ GibsStitch \/ GibsStitchError
      \/ GibsSingle

\* the handler with the tile fetches settling one by one, in every order
SpecGibs == InitGibs /\ [][NextGibs]_vars

\* every tile address up to MaxZoom (and absent parameters), every resolution
GridRequests ==
    [z : Param(0..MaxZoom), x : Param(0..(2^MaxZoom - 1)),
     y : Param(0..(2^MaxZoom - 1)), resolution : Param(Resolutions),
     date : Param({1})]

\* upstream scenarios for a whole grid: healthy, every tile answered with a
\* non-success status, or exactly one tile failing (by status or rejection)
GridScenarios(n) ==
    {[k \in 1..n |-> "ok"], [k \in 1..n |-> "status"]}
      \cup {[k \in 1..n |-> IF k = j THEN o ELSE "ok"] :
              j \in 1..n, o \in {"status", "error"}}

\* all tile fetches of the grid settle
TilesSettleAll ==
    /\ gpc = "await"
    /\ \A k \in DOMAIN tileState : tileState[k] = "pending"
    /\ tileState' \in GridScenarios(Len(tilePromises))
    /\ UNCHANGED <<gpc, request, tilePromises, sharpTakesRaw, gibsResponse,
                   events>>
    /\ UNCHANGED exceptGibs

InitGrid == InitGibsWith(GridRequests)

NextGrid ==
    GibsReject \/ GibsFanOut \/ TilesSettleAll \/ GibsStitch
      \/ GibsStitchError \/ GibsSingle

\* the handler over every grid size, the fetches of a grid settling together
SpecGrid == InitGrid /\ [][NextGrid]_vars

----------------------------------------------------------------------------
(* Provider A handler, one action per upstream call *)

\* an upstream call of the handler together with the answer it got
Call(endpoint, step, d, a) ==
    [endpoint |-> endpoint, step |-> step, date |-> d, type |-> a.type,
     status |-> a.status, results |-> a.results]

InitNasa ==
    /\ pc = "assets"
    /\ date \in Dates
    /\ assetsError = FALSE
    /\ availableDates = <<>>
    /\ closestDate = NULL
    /\ availableDates7 = <<>>
    /\ calls = <<>>
    /\ response = NoResponse
    /\ GibsIdle
    /\ CopernicusIdle
    /\ PageIdle
    /\ ScanIdle
    /\ events = <<>>
    /\ appendFails = FALSE

\* the exact-date assets query (begin = end = date) and the parse of its body
AssetsExact ==
    /\ pc = "assets"
    /\ \E a \in AssetsAnswers :
          /\ assetsError' = (a.type # "ok")
          /\ availableDates' = IF a.type = "ok" THEN a.results ELSE <<>>
          /\ closestDate' = IF a.type = "ok" /\ Len(a.results) > 0
                              THEN a.results[1] ELSE NULL
          /\ calls' = Append(calls, Call("assets", "exact", date, a))
          /\ events' =
                <<Log("NASA API REQUEST"), Log("NASA API KEY"),
                  Log("NASA Assets URL"), Fetch("assets")>>
                  \o (CASE a.type = "throw" -> <<Log("NASA Assets Fetch Error")>>
                        [] a.type = "status" ->
                              <<Log("NASA Assets Response"),
                                Log("NASA Assets Request Time")>>
                        [] a.type = "unparsable" ->
                              <<Log("NASA Assets Response"),
                                Log("NASA Assets Request Time"),
                                Log("NASA Assets JSON Parse Error")>>
                        [] OTHER ->
                              <<Log("NASA Assets Response"),
                                Log("NASA Assets Request Time"),
                                Log("NASA Available Dates")>>)
    /\ pc' = "assets7"
    /\ UNCHANGED <<date, availableDates7, response>>
    /\ UNCHANGED exceptNasa

\* variant of DateAvailable that drops the includes test
DateAvailableM(err, dates, d) == ~err

\* `if (!assetsError && availableDates.includes(date))`
DateAvailable(err, dates, d) == ~err /\ includes(dates, d)

\* the +-7 day assets query; every failure leaves availableDates7 empty
AssetsWindow ==
    /\ pc = "assets7"
    /\ \E a \in AssetsAnswers :
          /\ availableDates7' = IF a.type = "ok" THEN a.results ELSE <<>>
          /\ calls' = Append(calls, Call("assets", "window", date, a))
          /\ events' =
                events \o <<Log("NASA Assets +-7 URL"), Fetch("assets")>>
                  \o (CASE a.type = "throw" ->
                              <<Log("NASA Assets +-7 Fetch Error")>>
                        [] a.type = "unparsable" ->
                              <<Log("NASA Assets +-7 Response"),
                                Log("NASA Assets +-7 Request Time"),
                                Log("NASA Assets +-7 Fetch Error")>>
                        [] OTHER ->
                              <<Log("NASA Assets +-7 Response"),
                                Log("NASA Assets +-7 Request Time")>>)
    /\ pc' = IF DateAvailable(assetsError, availableDates, date)
               THEN "image" ELSE "fallback"
    /\ UNCHANGED <<date, assetsError, availableDates, closestDate, response>>
    /\ UNCHANGED exceptNasa

\* variant of AvailableOutcome that labels the image as the fallback path does
AvailableOutcomeM(a, d, closest, dates7) ==
    CASE a.type = "ok" -> ImageResponse(OrElse(closest, d), dates7)
      [] a.type = "status" -> ImageErrorResponse(a.status)
      [] OTHER -> ImageErrorResponse(500)

\* response of the available path for the answer a of the imagery fetch
AvailableOutcome(a, d, closest, dates7) ==
    CASE a.type = "ok" -> ImageResponse(d, dates7)
      [] a.type = "status" -> ImageErrorResponse(a.status)
      [] OTHER -> ImageErrorResponse(500)

\* the requested date is available: fetch the image
ImageFetch ==
    /\ pc = "image"
    /\ \E a \in ImageAnswers :
          /\ response' = AvailableOutcome(a, date, closestDate, availableDates7)
          /\ calls' = Append(calls, Call("imagery", "image", date, a))
          /\ events' =
                events \o <<Log("NASA Image URL"), Fetch("imagery")>>
                  \o (CASE a.type = "throw" -> <<Log("NASA Image Fetch Error")>>
                        [] a.type = "status" ->
                              <<Log("NASA Image Response"),
                                Log("NASA Image Request Time"),
                                Log("NASA Image Error")>>
                        [] OTHER ->
                              <<Log("NASA Image Response"),
                                Log("NASA Image Request Time"),
                                Log("NASA Image Fetch Success"),
                                Log("NASA API Total Time")>>)
    /\ pc' = "done"
    /\ UNCHANGED <<date, assetsError, availableDates, closestDate,
                   availableDates7>>
    /\ UNCHANGED exceptNasa

\* variant of FallbackOutcome that returns the image only with a closest date
FallbackOutcomeM(a, d, closest, dates7) ==
    IF a.type = "ok" /\ closest # NULL
      THEN ImageResponse(OrElse(closest, d), dates7)
      ELSE UnavailableResponse(dates7, closest)

\* response of the fallback path for the answer a of the imagery fetch
FallbackOutcome(a, d, closest, dates7) ==
    IF a.type = "ok"
      THEN ImageResponse(OrElse(closest, d), dates7)
      ELSE UnavailableResponse(dates7, closest)

\* fallback: /assets errored or does not list the date, try /imagery directly
FallbackFetch ==
    /\ pc = "fallback"
    /\ \E a \in ImageAnswers :
          /\ response' = FallbackOutcome(a, date, closestDate, availableDates7)
          /\ calls' = Append(calls, Call("imagery", "fallback", date, a))
          /\ events' =
                events \o <<Log("NASA Fallback"), Fetch("imagery")>>
                  \o (CASE a.type = "throw" ->
                              <<Log("NASA Fallback Image Fetch Error")>>
                        [] a.type = "status" ->
                              <<Log("NASA Fallback Image Response"),
                                Log("NASA Fallback Image Request Time"),
                                Log("NASA Fallback Image Error")>>
                        [] OTHER ->
                              <<Log("NASA Fallback Image Response"),
                                Log("NASA Fallback Image Request Time"),
                                Log("NASA Fallback Image Fetch Success")>>)
                  \o (IF a.type = "ok"
                        THEN <<>>
                        ELSE <<Log("NASA No imagery for requested date")>>)
                  \o <<Log("NASA API Total Time")>>
    /\ pc' = "done"
    /\ UNCHANGED <<date, assetsError, availableDates, closestDate,
                   availableDates7>>
    /\ UNCHANGED exceptNasa

NextNasa == AssetsExact \/ AssetsWindow \/ ImageFetch \/ FallbackFetch

SpecNasa == InitNasa /\ [][NextNasa]_vars

----------------------------------------------------------------------------
(* Provider B handlers: the availability POST and the image GET *)

AvailabilityRequests ==
    [route : {"availability"}, date : Param(Dates), acquisitionTime : {<<>>},
     lat : {<<>>}, lon : {<<>>}, resolution : {<<>>},
     clientId : BOOLEAN, clientSecret : BOOLEAN]

ImageRequests ==
    [route : {"image"}, date : {<<>>}, acquisitionTime : Param(Dates),
     lat : Param({NaN}), lon : Param({NaN}), resolution : Param({NaN}),
     clientId : BOOLEAN, clientSecret : BOOLEAN]

InitCopernicus ==
    /\ NasaIdle
    /\ GibsIdle
    /\ PageIdle
    /\ ScanIdle
    /\ events = <<>>
    /\ appendFails = FALSE
    /\ cpc = "start"
    /\ copRequest \in AvailabilityRequests \cup ImageRequests
    /\ accessToken = "none"
    /\ copCalls = <<>>
    /\ copResponse = NoCopResponse

\* variant of authOk that lets every answered token request through
authOkM(a) == a.type # "throw"

\* `authResponse.ok`
authOk(a) == a.type \in {"ok", "unparsable"}

\* `catalogRes.ok`, `processResponse.ok`
resOk(a) == a.type \in {"ok", "unparsable"}

\* new Date(date) is invalid, so from.toISOString() throws a RangeError
\* before any upstream call; the POST handler catches it
AvailabilityInvalidDate ==
    /\ cpc = "start"
    /\ copRequest.route = "availability"
    /\ copRequest.date = <<>>
    /\ copResponse' = CopError("Invalid time value", 500)
    /\ events' = <<Log("Copernicus Availability Request"),
                   Log("Copernicus Availability Error")>>
    /\ cpc' = "done"
    /\ UNCHANGED <<copRequest, accessToken, copCalls>>
    /\ UNCHANGED exceptCopernicus

\* fetchAvailableScenes: the token exchange; every failure is thrown and
\* caught by the POST handler, which answers 500 with the error's message
FetchScenesToken ==
    /\ cpc = "start"
    /\ copRequest.route = "availability"
    /\ copRequest.date # <<>>
    /\ \E a \in TokenAnswers :
          /\ copCalls' = Append(copCalls, CopCall("token", a, a.token, NULL))
          /\ events' =
                <<Log("Copernicus Availability Request"), Fetch("token")>>
                  \o (IF a.type = "ok"
                        THEN <<>>
                        ELSE <<Log("Copernicus Availability Error")>>)
          /\ IF a.type = "throw"
               THEN /\ copResponse' = CopError("fetch failed", 500)
                    /\ cpc' = "done"
                    /\ UNCHANGED accessToken
               ELSE IF ~authOk(a)
               THEN /\ copResponse' =
                          CopError("Failed to authenticate for Catalog API", 500)
                    /\ cpc' = "done"
                    /\ UNCHANGED accessToken
               ELSE IF a.type = "unparsable"
               THEN /\ copResponse' = CopError("Unexpected token", 500)
                    /\ cpc' = "done"
                    /\ UNCHANGED accessToken
               ELSE /\ accessToken' = a.token
                    /\ cpc' = "catalog"
                    /\ UNCHANGED copResponse
    /\ UNCHANGED copRequest
    /\ UNCHANGED exceptCopernicus

\* fetchAvailableScenes: the catalog query with `Bearer ${access_token}`
FetchScenesCatalog ==
    /\ cpc = "catalog"
    /\ \E a \in CatalogAnswers :
          /\ copCalls' =
                Append(copCalls, CopCall("catalog", a, accessToken, NULL))
          /\ copResponse' =
                IF a.type = "throw" THEN CopError("fetch failed", 500)
                ELSE IF ~resOk(a)
                  THEN CopError("Failed to fetch Catalog API", 500)
                ELSE IF a.type = "unparsable"
                  THEN CopError("Unexpected token", 500)
                ELSE ScenesResponse(ScenesOf(a.features))
          /\ events' =
                events \o <<Fetch("catalog"),
                            IF a.type = "ok"
                              THEN Log("Copernicus Availability: scenes")
                              ELSE Log("Copernicus Availability Error")>>
    /\ cpc' = "done"
    /\ UNCHANGED <<copRequest, accessToken>>
    /\ UNCHANGED exceptCopernicus

\* variant of MissingOrInvalid that tests the acquisition time only
MissingOrInvalidM == copRequest.acquisitionTime = <<>>

\* `!acquisitionTime || isNaN(lat) || isNaN(lon) || isNaN(resolution)`
MissingOrInvalid ==
    \/ copRequest.acquisitionTime = <<>>
    \/ isNaN(parseFloatOr(copRequest.lat, 0))
    \/ isNaN(parseFloatOr(copRequest.lon, 0))
    \/ isNaN(parseIntOr(copRequest.resolution, DefaultCopernicusResolution))

\* `!clientId || !clientSecret`
NoCredentials == ~copRequest.clientId \/ ~copRequest.clientSecret

\* image GET: 400 on a missing or invalid parameter
ImageBadRequest ==
    /\ cpc = "start"
    /\ copRequest.route = "image"
    /\ MissingOrInvalid
    /\ copResponse' =
          CopError(IF copRequest.acquisitionTime = <<>>
                     THEN "Missing required parameter: acquisitionTime"
                     ELSE "Missing or invalid parameters", 400)
    /\ events' = <<Log("Copernicus API Request"), Log("Error")>>
    /\ cpc' = "done"
    /\ UNCHANGED <<copRequest, accessToken, copCalls>>
    /\ UNCHANGED exceptCopernicus

\* image GET: 500 when the credentials are not configured
ImageNoCredentials ==
    /\ cpc = "start"
    /\ copRequest.route = "image"
    /\ ~MissingOrInvalid
    /\ NoCredentials
    /\ copResponse' =
          CopError("Copernicus API credentials not configured", 500)
    /\ events' = <<Log("Copernicus API Request"), Log("Copernicus API Key"),
                   Log("Error")>>
    /\ cpc' = "done"
    /\ UNCHANGED <<copRequest, accessToken, copCalls>>
    /\ UNCHANGED exceptCopernicus

\* image GET: the token exchange; a non-success status is returned with the
\* identity endpoint's status, a thrown error is caught and answered 500
ImageToken ==
    /\ cpc = "start"
    /\ copRequest.route = "image"
    /\ ~MissingOrInvalid
    /\ ~NoCredentials
    /\ \E a \in TokenAnswers :
          /\ copCalls' = Append(copCalls, CopCall("token", a, a.token, NULL))
          /\ events' =
                <<Log("Copernicus API Request"), Log("Copernicus API Key"),
                  Fetch("token")>>
                  \o (IF a.type = "throw" \/ (authOk(a) /\ a.type = "unparsable")
                        THEN <<Log("Error in fetch-copernicus-image API route")>>
                      ELSE IF ~authOk(a)
                        THEN <<Log("Copernicus Auth Error")>>
                      ELSE <<Log("Copernicus Access Token Obtained"),
                             Log("Bounding Box"), Log("Time Interval"),
                             Log("Calculated Output Dimensions")>>)
          /\ IF a.type = "throw"
               THEN /\ copResponse' = CopError("Internal server error", 500)
                    /\ cpc' = "done"
                    /\ UNCHANGED accessToken
               ELSE IF ~authOk(a)
               THEN /\ copResponse' =
                          CopError("Failed to authenticate with Copernicus API",
                                   a.status)
                    /\ cpc' = "done"
                    /\ UNCHANGED accessToken
               ELSE IF a.type = "unparsable"
               THEN /\ copResponse' = CopError("Internal server error", 500)
                    /\ cpc' = "done"
                    /\ UNCHANGED accessToken
               ELSE /\ accessToken' = a.token
                    /\ cpc' = "process"
                    /\ UNCHANGED copResponse
    /\ UNCHANGED copRequest
    /\ UNCHANGED exceptCopernicus

\* image GET: the process request with `Bearer ${accessToken}` and
\* timeRange from = to = acquisitionTime
ImageProcess ==
    /\ cpc = "process"
    /\ \E a \in ProcessAnswers :
          /\ copCalls' =
                Append(copCalls,
                       CopCall("process", a,
                               accessToken, copRequest.acquisitionTime[1]))
          /\ copResponse' =
                IF a.type = "throw" THEN CopError("Internal server error", 500)
                ELSE IF ~resOk(a) THEN CopError("Copernicus API Error", a.status)
                ELSE CopImage
          /\ events' =
                events \o <<Log("Sending request to Copernicus Process API"),
                            Fetch("process"),
                            IF a.type = "throw"
                              THEN Log("Error in fetch-copernicus-image API route")
                            ELSE IF ~resOk(a)
                              THEN Log("Copernicus Process API Error")
                            ELSE Log("Copernicus Process API Response Status")>>
    /\ cpc' = "done"
    /\ UNCHANGED <<copRequest, accessToken>>
    /\ UNCHANGED exceptCopernicus

NextCopernicus ==
    \/ AvailabilityInvalidDate \/ FetchScenesToken \/ FetchScenesCatalog
    \/ ImageBadRequest \/ ImageNoCredentials \/ ImageToken \/ ImageProcess

SpecCopernicus == InitCopernicus /\ [][NextCopernicus]_vars

----------------------------------------------------------------------------
(* The handlers with a log file that stops taking appends *)

InitLog == InitNasa \/ InitGrid \/ InitCopernicus

\* at any moment fs.appendFile may start to reject (disk full, logs/ gone);
\* a step of a handler awaits its appendLog calls, and a rejected one would
\* end the handler there, without a response of its own (the settling of
\* the tile fetches awaits none)
NextLog ==
    \/ /\ ~appendFails
       /\ appendFails' = TRUE
       /\ UNCHANGED <<nasaVars, gibsVars, copVars, uiVars, scanVars, events>>
    \/ IF appendLog(appendFails) = "resolved"
         THEN NextNasa
         ELSE /\ pc \notin {"idle", "done"}
              /\ pc' = "done"
              /\ UNCHANGED <<date, assetsError, availableDates, closestDate,
                             availableDates7, calls, response>>
              /\ UNCHANGED <<exceptNasa, events>>
    \/ IF appendLog(appendFails) = "resolved"
         THEN NextGrid
         ELSE \/ TilesSettleAll
              \/ /\ \/ gpc = "start"
                    \/ /\ gpc = "await"
                       /\ \A k \in DOMAIN tileState :
                             tileState[k] # "pending"
                 /\ gpc' = "done"
                 /\ UNCHANGED <<request, tilePromises, tileState,
                                sharpTakesRaw, gibsResponse>>
                 /\ UNCHANGED <<exceptGibs, events>>
    \/ IF appendLog(appendFails) = "resolved"
         THEN NextCopernicus
         ELSE /\ cpc \notin {"idle", "done"}
              /\ cpc' = "done"
              /\ UNCHANGED <<copRequest, accessToken, copCalls, copResponse>>
              /\ UNCHANGED <<exceptCopernicus, events>>

SpecLog == InitLog /\ [][NextLog]_vars

----------------------------------------------------------------------------
(* The page: Check Availability *)

\* handleCheckAvailability up to its first await: the resets, then the
\* request of the selected source; the button is never disabled, so a check
\* can be started while others are in flight (fewer than limit here)
ClickCheckWithin(limit) ==
    /\ Len(ops) < limit
    /\ availability' = "Checking..."
    /\ uiAvailableDates' = <<>>
    /\ uiClosestDate' = <<>>
    /\ availableScenes' = <<>>
    /\ imageUrl' = "null"
    /\ imageMeta' = "null"
    /\ errorMsg' = "null"
    /\ nextAvailable' = <<>>
    /\ prevAvailable' = <<>>
    /\ gibsPreviewUrl' = <<>>
    /\ gibsPreviewError' = "null"
    /\ ops' = Append(ops,
          IF source = "nasa"
            THEN Op("check", "await", NoTileUrl,
                    Req("fetch-image", <<uiDate>>, <<>>, NoTileUrl, center))
          ELSE IF source = "gibs"
            THEN Op("check", "dates", TileUrl(uiDate, center, <<>>),
                    Req("available-dates", <<>>, <<>>, NoTileUrl, center))
          ELSE Op("check", "await", NoTileUrl,
                  Req("copernicus-availability", <<uiDate>>, <<>>, NoTileUrl,
                      center)))
    /\ completed' = NoCompletion
    /\ UNCHANGED <<settings, selectedScene, fetchingImage, gibsActualDate,
                   returned>>
    /\ UNCHANGED exceptPage

\* the scene the linear scan selects among the filtered scenes
closestScene(filtered, d) ==
    filtered[ClosestIndex(TimesOfScenes(filtered), getTimeOfDate(d))]

\* variant of hasScenes that takes every ok answer as one with scenes
hasScenesM(r) == r.type = "ok"

\* `res.ok && data.scenes && data.scenes.length > 0`
hasScenes(r) == r.type = "ok" /\ Len(r.scenes) > 0

\* handleCheckAvailability, Copernicus branch, after the answer arrived
CopernicusCheckDoneWith(Replies) ==
    \E i \in DOMAIN ops : \E r \in Replies :
      LET op == ops[i]
          filtered == filter(r.scenes, op.cloudCoverFilter)
      IN  /\ op.kind = "check" /\ op.source = "copernicus"
          /\ IF r.type = "throw"
               THEN /\ availability' = "Error checking availability."
                    /\ errorMsg' = "Error checking availability."
                    /\ UNCHANGED <<availableScenes, selectedScene>>
               ELSE IF hasScenes(r)
               THEN /\ availableScenes' = filtered
                    /\ IF Len(filtered) > 0
                         THEN /\ selectedScene' =
                                    <<closestScene(filtered, op.date)>>
                              /\ errorMsg' = "Select a scene to fetch image, or use the closest auto-selected."
                         ELSE /\ errorMsg' =
                                    "No scenes match the cloud cover filter."
                              /\ selectedScene' = <<>>
                    /\ UNCHANGED availability
               ELSE /\ errorMsg' =
                          "No imagery available for this date/location."
                    /\ availableScenes' = <<>>
                    /\ selectedScene' = <<>>
                    /\ UNCHANGED availability
          /\ ops' = Remove(ops, i)
          /\ returned' = returned \cup {r.scenes[k] : k \in DOMAIN r.scenes}
          /\ completed' = [op |-> op, reply |-> r, index |-> i]
          /\ UNCHANGED <<settings, imageUrl, imageMeta, fetchingImage,
                         gibsPanel, nasaPanel>>
          /\ UNCHANGED exceptPage

\* the answer of the provider A route as the page reads it: res.ok or not,
\* and availableDates and closestDate of the JSON body (null is <<>>)
FromNasa(r) ==
    Reply(IF r.status = 200 THEN "ok" ELSE "status", r.status, <<>>,
          IF r.kind = "unavailable" THEN r.dates ELSE <<>>,
          IF r.kind = "unavailable" /\ r.closest # NULL
            THEN <<r.closest>> ELSE <<>>)

\* `[...data.availableDates].sort()` : ascending order of the ISO date strings
RECURSIVE sort(_)
sort(s) ==
    IF s = <<>>
      THEN <<>>
      ELSE LET rest == sort(Tail(s))
               k == Cardinality({i \in DOMAIN rest : rest[i] <= Head(s)})
           IN  SubSeq(rest, 1, k) \o <<Head(s)>>
                 \o SubSeq(rest, k + 1, Len(rest))

\* `sorted.findIndex(d => d === data.closestDate)`, counted from 1; 0 when
\* no entry matches (closestDate null matches nothing)
findIndex(s, c) ==
    IF c # <<>> /\ includes(s, c[1])
      THEN CHOOSE i \in DOMAIN s :
              s[i] = c[1] /\ \A j \in 1..(i - 1) : s[j] # c[1]
      ELSE 0

\* handleCheckAvailability, provider A branch, after the answer arrived
NasaCheckDoneWith(Replies) ==
    \E i \in DOMAIN ops : \E r \in Replies :
      LET op == ops[i]
          error == IF r.status = 404
                     THEN "No imagery available for this date/location."
                     ELSE "Failed to fetch NASA image."
          sorted == sort(r.dates)
          idx == findIndex(sorted, r.closest)
      IN  /\ op.kind = "check" /\ op.source = "nasa"
          /\ IF r.type = "throw"
               THEN /\ availability' = "Error checking availability."
                    /\ errorMsg' = "Error checking availability."
                    /\ UNCHANGED nasaPanel
               ELSE IF r.type = "ok"
               THEN /\ availability' = "Imagery available!"
                    /\ UNCHANGED <<errorMsg, nasaPanel>>
               ELSE /\ availability' = error
                    /\ uiAvailableDates' = r.dates
                    /\ uiClosestDate' = r.closest
                    /\ errorMsg' = error
                    /\ IF Len(r.dates) > 0
                         THEN /\ prevAvailable' =
                                    IF idx > 1 THEN <<sorted[idx - 1]>> ELSE <<>>
                              /\ nextAvailable' =
                                    IF idx >= 1 /\ idx < Len(sorted)
                                      THEN <<sorted[idx + 1]>> ELSE <<>>
                         ELSE UNCHANGED <<prevAvailable, nextAvailable>>
          /\ ops' = Remove(ops, i)
          /\ completed' = [op |-> op, reply |-> r, index |-> i]
          /\ UNCHANGED <<settings, availableScenes, selectedScene, imageUrl,
                         imageMeta, fetchingImage, gibsPanel, returned>>
          /\ UNCHANGED exceptPage

----------------------------------------------------------------------------
(* The page: Fetch Image *)

\* variant of noValidScene that never refuses
noValidSceneM(sel) == FALSE

\* `!selectedScene || !selectedScene.datetime`
noValidScene(sel) == sel = <<>> \/ sel[1].datetime = <<>>

\* variant of FetchDisabled that leaves the button enabled during a fetch
FetchDisabledM == source = "copernicus" /\ noValidScene(selectedScene)

\* `disabled={fetchingImage || (source === 'copernicus' && (...))}`
FetchDisabled ==
    fetchingImage \/ (source = "copernicus" /\ noValidScene(selectedScene))

\* handleFetchImage up to its first await (or its early return), with at most
\* `limit` runs in flight
ClickFetchWithin(limit) ==
    /\ ~FetchDisabled
    /\ Len(ops) < limit
    /\ imageUrl' = "null"
    /\ availability' = "null"
    /\ gibsPreviewUrl' = <<>>
    /\ gibsPreviewError' = "null"
    /\ IF source = "copernicus"
         THEN IF noValidScene(selectedScene)
                THEN /\ imageMeta' = "Please select a valid scene."
                     /\ fetchingImage' = FALSE
                     /\ UNCHANGED ops
                ELSE /\ imageMeta' = "null"
                     /\ fetchingImage' = TRUE
                     /\ ops' = Append(ops,
                           Op("fetch", "await", NoTileUrl,
                              Req("fetch-copernicus-image", <<>>,
                                  IF selectedScene = <<>>
                                    THEN <<>>
                                    ELSE selectedScene[1].datetime,
                                  NoTileUrl, center)))
         ELSE /\ imageMeta' = "null"
              /\ fetchingImage' = TRUE
              /\ ops' = Append(ops,
                    IF source = "gibs"
                      THEN Op("fetch", "dates", TileUrl(uiDate, center, <<>>),
                              Req("available-dates", <<>>, <<>>, NoTileUrl,
                                  center))
                      ELSE Op("fetch", "await", NoTileUrl,
                              Req("fetch-image", <<uiDate>>, <<>>, NoTileUrl,
                                  center)))
    /\ completed' = NoCompletion
    /\ UNCHANGED <<settings, errorMsg, availableScenes, selectedScene,
                   gibsActualDate, nasaPanel, returned>>
    /\ UNCHANGED exceptPage

\* answers of the image routes as the page reads them: the image, a
\* non-success status, or a rejected fetch
ImageReplies ==
    {Reply("ok", 200, <<>>, <<>>, <<>>), Unreachable}
      \cup {Reply("status", st, <<>>, <<>>, <<>>) :
               st \in {400, 500} \cup ErrorStatuses}

\* handleFetchImage, Copernicus branch, after the answer arrived; the image
\* route sets no x-image-metadata header, so the meta text is ''
CopernicusFetchDone ==
    \E i \in DOMAIN ops : \E r \in ImageReplies :
      LET op == ops[i]
      IN  /\ op.kind = "fetch" /\ op.source = "copernicus"
          /\ IF r.type = "ok"
               THEN /\ imageUrl' = "blob"
                    /\ imageMeta' = ""
               ELSE IF r.type = "status"
               THEN /\ imageUrl' = "null"
                    /\ imageMeta' = "No image available for this date/location."
               ELSE /\ imageUrl' = "null"
                    /\ imageMeta' = "Error fetching image."
          /\ fetchingImage' = FALSE
          /\ ops' = Remove(ops, i)
          /\ completed' = [op |-> op, reply |-> r, index |-> i]
          /\ UNCHANGED <<settings, availability, errorMsg, availableScenes,
                         selectedScene, gibsPanel, nasaPanel,
                         returned>>
          /\ UNCHANGED exceptPage

\* handleFetchImage, provider A branch, after the answer arrived; the route
\* sets the x-image-metadata header on the image it serves
NasaFetchDone ==
    \E i \in DOMAIN ops :
      \E r \in ImageReplies \cup {Reply("status", 404, <<>>, <<>>, <<>>)} :
        LET op == ops[i]
        IN  /\ op.kind = "fetch" /\ op.source = "nasa"
            /\ IF r.type = "ok"
                 THEN /\ imageUrl' = "blob"
                      /\ imageMeta' = "x-image-metadata"
                 ELSE IF r.type = "status"
                 THEN /\ imageUrl' = "null"
                      /\ imageMeta' =
                            "No image available for this date/location."
                 ELSE /\ imageUrl' = "null"
                      /\ imageMeta' = "Error fetching image."
            /\ fetchingImage' = FALSE
            /\ ops' = Remove(ops, i)
            /\ completed' = [op |-> op, reply |-> r, index |-> i]
            /\ UNCHANGED <<settings, availability, errorMsg, availableScenes,
                           selectedScene, gibsPanel, nasaPanel,
                           returned>>
            /\ UNCHANGED exceptPage

----------------------------------------------------------------------------
(* The page: the user's edits *)

\* click on a scene chip; scene.datetime.slice throws when the scene has no
\* datetime, after setSelectedScene was already queued
SelectScene ==
    /\ source = "copernicus"
    /\ \E i \in DOMAIN availableScenes :
         LET scene == availableScenes[i]
         IN  /\ selectedScene' = <<scene>>
             /\ IF scene.datetime = <<>>
                  THEN UNCHANGED <<uiDate, availability, availableScenes,
                                   errorMsg, nextAvailable, prevAvailable>>
                  ELSE /\ uiDate' = DayOf(scene.datetime[1])
                       /\ availability' = ""
                       /\ availableScenes' = <<>>
                       /\ errorMsg' = "null"
                       /\ nextAvailable' = <<>>
                       /\ prevAvailable' = <<>>
    /\ completed' = NoCompletion
    /\ UNCHANGED <<source, center, cloudCoverFilter, imageUrl, imageMeta,
                   fetchingImage, gibsPanel, uiAvailableDates, uiClosestDate,
                   ops, returned>>
    /\ UNCHANGED exceptPage

\* the cloud cover slider
SetCloudCoverFilter ==
    /\ \E f \in CloudFilters \ {cloudCoverFilter} : cloudCoverFilter' = f
    /\ completed' = NoCompletion
    /\ UNCHANGED <<source, center, uiDate, availability, errorMsg,
                   availableScenes, selectedScene, imageUrl, imageMeta,
                   fetchingImage, gibsPanel, nasaPanel, ops,
                   returned>>
    /\ UNCHANGED exceptPage

\* the date input
SetDate ==
    /\ \E d \in Dates \ {uiDate} : uiDate' = d
    /\ completed' = NoCompletion
    /\ UNCHANGED <<source, center, cloudCoverFilter, availability, errorMsg,
                   availableScenes, selectedScene, imageUrl, imageMeta,
                   fetchingImage, gibsPanel, nasaPanel, ops,
                   returned>>
    /\ UNCHANGED exceptPage


----------------------------------------------------------------------------
(* Claims about the provider A handler *)

\* the exact-date assets query succeeded (status ok, body parsed)
ExactOk == Len(calls) >= 1 /\ calls[1].type = "ok"

\* ... and its date list contains the requested date
ExactListsDate == ExactOk /\ includes(calls[1].results, date)

\* C1: when the exact-date assets query succeeds and lists the requested
\* date, the third upstream call is an imagery fetch for the requested date
\* and, if it succeeds, the response is the image whose x-image-metadata is
\* the requested date.
C1_AvailableFetchesRequestedDate ==
    (pc = "done" /\ ExactListsDate) =>
        /\ Len(calls) = 3
        /\ calls[3].endpoint = "imagery"
        /\ calls[3].date = date
        /\ (calls[3].type = "ok" =>
               response.kind = "image" /\ response.meta = date)

\* a request on the available path answered with the image, the listed date
\* not being the first entry of the exact-date list
C1_Witness ==
    /\ pc = "done" /\ ExactListsDate
    /\ calls[1].results[1] # date
    /\ calls[3].type = "ok"
    /\ response.kind = "image"

\* C2 (as claimed): exact-date query succeeds without the requested date, the
\* window query returns a non-empty list and no image is returned: the
\* response is the unavailable payload, availableDates is the window list and
\* closestDate is non-null and an element of availableDates.
C2_ClosestAmongCandidates ==
    (/\ pc = "done"
     /\ ExactOk /\ ~includes(calls[1].results, date)
     /\ calls[2].type = "ok" /\ Len(calls[2].results) > 0
     /\ response.kind # "image") =>
        /\ response.kind = "unavailable"
        /\ response.dates = calls[2].results
        /\ response.closest # NULL
        /\ includes(response.dates, response.closest)

C16_StatusPropagated ==
    (/\ pc = "done" /\ Len(calls) = 3
     /\ calls[3].type = "status"
     /\ response.kind # "image") =>
        response.status = calls[3].status

\* the list the +-7 day query of this request obtained (empty on failure)
WindowList ==
    IF Len(calls) >= 2 /\ calls[2].type = "ok" THEN calls[2].results ELSE <<>>

\* C19: every image response carries as x-nasa-available-dates the date list
\* obtained by the +-7 day query of the same request, and the image is
\* returned whenever the imagery fetch succeeds, whether or not the window
\* query failed (WindowList is then empty).
C19_ImageCarriesWindowList ==
    /\ response.kind = "image" => response.dates = WindowList
    /\ (pc = "done" /\ Len(calls) = 3 /\ calls[3].type = "ok") =>
          response.kind = "image"

\* an image returned with a non-empty window list
C19_Witness ==
    /\ pc = "done"
    /\ calls[2].type = "ok" /\ Len(calls[2].results) = MaxLen
    /\ response.kind = "image"
    /\ response.dates = calls[2].results

\* an image returned although the window query failed
C19_WitnessWindowFailed ==
    /\ pc = "done"
    /\ calls[2].type = "throw"
    /\ response.kind = "image" /\ response.dates = <<>>

\* s is in chronological (ascending) order
Chronological(s) == \A i, j \in DOMAIN s : i < j => s[i] <= s[j]

\* C22 (as claimed): the candidate date list of the unavailable payload is in
\* chronological order, whatever the order in which the provider listed the
\* results of the +-7 day query.
C22_CandidatesChronological ==
    response.kind = "unavailable" => Chronological(response.dates)

\* the +-7 day query of this request failed: the fetch or text() rejected,
\* the status was not a success, or the body could not be parsed
WindowFailed == Len(calls) >= 2 /\ calls[2].type # "ok"

\* C23 (as claimed, for provider A's window query): when the +-7 day query
\* fails, the handler does not answer with a payload whose candidate list is
\* empty, as if the provider had listed no dates.
C23_WindowFailureReported ==
    (pc = "done" /\ WindowFailed) =>
        ~(response.kind = "unavailable" /\ response.dates = <<>>)

\* C29 (as claimed): in every image response, on the available path and on
\* the fallback path, x-image-metadata is the date the imagery fetch was made
\* for, which is the requested date.
C29_MetadataIsFetchedDate ==
    (pc = "done" /\ response.kind = "image") =>
        /\ calls[3].date = date
        /\ response.meta = calls[3].date

\* the calls made so far to the given endpoint
CallsTo(endpoint) == {i \in DOMAIN calls : calls[i].endpoint = endpoint}

C30_WitnessFallback ==
    /\ pc = "done"
    /\ calls[3].step = "fallback"
    /\ Cardinality(CallsTo("imagery")) = 1

----------------------------------------------------------------------------
(* The page: the GIBS branches, served by the GIBS handler *)

\* answers of `?action=available-dates` as the page reads them: a rejected
\* fetch, the route's 500, or one of the given date lists
DatesReplies(Lists) ==
    {Unreachable, Reply("status", 500, <<>>, <<>>, <<>>)}
      \cup {Reply("ok", 200, <<>>, l, <<>>) : l \in Lists}

\* variant of actualDateOf that keeps the requested date whatever is listed
actualDateOfM(r, d) == IF r.type = "throw" THEN <<>> ELSE <<d>>

\* the date the lookup leaves in gibsActualDate: null when the lookup threw,
\* the closest listed date, or the requested date when nothing is listed
actualDateOf(r, d) ==
    IF r.type = "throw" THEN <<>>
    ELSE IF r.type = "ok" /\ Len(r.dates) > 0
      THEN <<r.dates[ClosestIndex(TimesOfDates(r.dates), getTimeOfDate(d))]>>
    ELSE <<d>>

\* both handlers, GIBS branch: the dates lookup has answered, the actual
\* date is stored and the tile built before the lookup is requested
GibsDatesDoneWith(Lists) ==
    \E i \in DOMAIN ops : \E r \in DatesReplies(Lists) :
      LET op == ops[i]
      IN  /\ op.source = "gibs" /\ op.stage = "dates"
          /\ gibsActualDate' = actualDateOf(r, op.date)
          /\ ops' = [ops EXCEPT
                       ![i].stage = "tile",
                       ![i].req = Req("tile", <<op.tileUrl.date>>, <<>>,
                                      op.tileUrl, op.center)]
          /\ completed' = [op |-> op, reply |-> r, index |-> i]
          /\ UNCHANGED <<settings, availability, errorMsg, availableScenes,
                         selectedScene, imageUrl, imageMeta, fetchingImage,
                         gibsPreviewUrl, gibsPreviewError, nasaPanel,
                         returned>>
          /\ UNCHANGED exceptPage

\* the options of the `resolution` select whose grid side is at most MaxSide
UiResolutions == {r \in {512, 1024, 2048} : tilesPerSide(r) <= MaxSide}

\* click on the preview image: request the high-res image of the tile
ClickPreview ==
    /\ source = "gibs"
    /\ gibsPreviewUrl # <<>>
    /\ Len(ops) < MaxOps
    /\ \E res \in UiResolutions :
         LET url == TileUrl(uiDate, center, <<res>>)
         IN  ops' = Append(ops, Op("preview", "tile", url,
                                   Req("tile", <<uiDate>>, <<>>, url, center)))
    /\ completed' = NoCompletion
    /\ UNCHANGED <<settings, availability, errorMsg, availableScenes,
                   selectedScene, imageUrl, imageMeta, fetchingImage,
                   gibsPanel, nasaPanel, returned>>
    /\ UNCHANGED exceptPage

\* the GIBS route receives a tile request of the page
GibsRouteReceive ==
    /\ gpc = "idle"
    /\ \E i \in DOMAIN ops :
         LET url == ops[i].req.tileUrl
         IN  /\ ops[i].stage = "tile"
             /\ request' = [z |-> <<url.z>>, x |-> <<url.x>>, y |-> <<url.y>>,
                            resolution |-> url.resolution,
                            date |-> <<url.date>>]
             /\ ops' = [ops EXCEPT ![i].stage = "served"]
    /\ gpc' = "start"
    /\ completed' = NoCompletion
    /\ UNCHANGED <<tilePromises, tileState, sharpTakesRaw, gibsResponse>>
    /\ UNCHANGED <<nasaVars, copVars, scanVars, events, appendFails>>
    /\ UNCHANGED <<settings, availability, errorMsg, availableScenes,
                   selectedScene, imageUrl, imageMeta, fetchingImage,
                   gibsPanel, nasaPanel, returned>>

\* what the try/catch/finally around `await fetch(tileUrl)` leaves on the
\* page for an answer of type t; the high-res click only opens a window
TileOutcome(op, t) ==
    /\ IF op.kind = "preview"
         THEN UNCHANGED <<gibsPreviewUrl, gibsPreviewError, availability>>
         ELSE IF t = "ok"
         THEN /\ gibsPreviewUrl' = <<op.tileUrl>>
              /\ gibsPreviewError' = "null"
              /\ availability' = "GIBS tile available!"
         ELSE IF t = "status"
         THEN /\ gibsPreviewUrl' = <<>>
              /\ gibsPreviewError' =
                    "No tile available for this layer/date/position."
              /\ availability' = "No GIBS tile available."
         ELSE /\ gibsPreviewUrl' = <<>>
              /\ gibsPreviewError' = "Error fetching GIBS tile."
              /\ availability' = "Error fetching GIBS tile."
    /\ fetchingImage' = IF op.kind = "fetch" THEN FALSE ELSE fetchingImage

\* the answer of the GIBS route arrives at the page
GibsTileDone ==
    /\ gpc = "done"
    /\ \E i \in DOMAIN ops :
         LET op == ops[i]
             t == IF gibsResponse.status = 200 THEN "ok" ELSE "status"
         IN  /\ op.stage = "served"
             /\ TileOutcome(op, t)
             /\ ops' = Remove(ops, i)
             /\ completed' =
                   [op |-> op,
                    reply |-> Reply(t, gibsResponse.status, <<>>, <<>>, <<>>),
                    index |-> i]
    /\ gpc' = "idle"
    /\ request' = NoGibsRequest
    /\ tilePromises' = <<>>
    /\ tileState' = <<>>
    /\ gibsResponse' = NoGibsResponse
    /\ events' = <<>>
    /\ UNCHANGED sharpTakesRaw
    /\ UNCHANGED <<nasaVars, copVars, scanVars, appendFails>>
    /\ UNCHANGED <<settings, errorMsg, availableScenes, selectedScene,
                   imageUrl, imageMeta, gibsActualDate, nasaPanel, returned>>

\* the tile request never reaches the route: fetch rejects
GibsTileUnreachable ==
    /\ \E i \in DOMAIN ops :
         LET op == ops[i]
         IN  /\ op.stage = "tile"
             /\ TileOutcome(op, "throw")
             /\ ops' = Remove(ops, i)
             /\ completed' = [op |-> op, reply |-> Unreachable, index |-> i]
    /\ UNCHANGED <<settings, errorMsg, availableScenes, selectedScene,
                   imageUrl, imageMeta, gibsActualDate, nasaPanel, returned>>
    /\ UNCHANGED exceptPage

----------------------------------------------------------------------------
(* Specifications of the page *)

\* the page with GIBS selected, its tile requests served by the GIBS handler
InitPageGibs ==
    /\ \E c \in Points, d \in Dates :
          PageWith("gibs", c, d, DefaultCloudCoverFilter)
    /\ NasaIdle
    /\ CopernicusIdle
    /\ ScanIdle
    /\ events = <<>>
    /\ appendFails = FALSE
    /\ gpc = "idle"
    /\ request = NoGibsRequest
    /\ tilePromises = <<>>
    /\ tileState = <<>>
    /\ sharpTakesRaw \in BOOLEAN
    /\ gibsResponse = NoGibsResponse

NextPageGibs ==
    \/ ClickCheckWithin(MaxOps) \/ ClickFetchWithin(MaxOps)
    \/ ClickPreview \/ SetDate
    \/ GibsDatesDoneWith({<<>>} \cup {<<d>> : d \in Dates})
    \/ GibsRouteReceive \/ GibsTileDone
    \/ GibsTileUnreachable
    \/ GibsFanOut \/ TilesSettleAll \/ GibsStitch \/ GibsStitchError
    \/ GibsSingle

SpecPageGibs == InitPageGibs /\ [][NextPageGibs]_vars

----------------------------------------------------------------------------
(* Claims about the provider B handlers *)

\* the request was refused before any upstream call
RefusedBeforeToken ==
    IF copRequest.route = "image"
      THEN MissingOrInvalid \/ NoCredentials
      ELSE copRequest.date = <<>>

\* C17: every availability query and image fetch that is not refused for its
\* parameters starts with its own token exchange; the catalog or process
\* endpoint is called only directly after a successful token exchange of
\* the same call and with the token that exchange returned; a failed token
\* exchange ends the call with an error and without a catalog or process call.
C17_TokenExchangeFirst ==
    /\ \A i \in DOMAIN copCalls :
          IF i = 1
            THEN copCalls[i].endpoint = "token"
            ELSE /\ i = 2
                 /\ copCalls[i].endpoint =
                       (IF copRequest.route = "image" THEN "process"
                                                      ELSE "catalog")
                 /\ copCalls[1].type = "ok"
                 /\ copCalls[i].token = copCalls[1].token
    /\ (cpc = "done" /\ copCalls = <<>>) =>
          (RefusedBeforeToken /\ copResponse.kind = "error")
    /\ (cpc = "done" /\ copCalls # <<>> /\ copCalls[1].type # "ok") =>
          (Len(copCalls) = 1 /\ copResponse.kind = "error")
    /\ cpc \in {"catalog", "process"} =>
          (Len(copCalls) = 1 /\ accessToken = copCalls[1].token)

\* an image fetch whose process request carried the token of its exchange
C17_Witness ==
    /\ cpc = "done"
    /\ copRequest.route = "image"
    /\ Len(copCalls) = 2
    /\ copCalls[1].token = "t2"
    /\ copCalls[2].endpoint = "process" /\ copCalls[2].token = "t2"

\* an availability query ended by a refused token exchange
C17_WitnessRefused ==
    /\ cpc = "done"
    /\ copRequest.route = "availability"
    /\ Len(copCalls) = 1
    /\ copCalls[1].type = "status"
    /\ copResponse.kind = "error"

\* the image request lacks acquisitionTime, or carries a lat, lon or
\* resolution that does not parse to a number
BadImageParameters ==
    \/ copRequest.acquisitionTime = <<>>
    \/ copRequest.lat = <<NaN>>
    \/ copRequest.lon = <<NaN>>
    \/ copRequest.resolution = <<NaN>>

\* C26: the image handler answers a request without acquisitionTime, or with
\* a non-numeric lat, lon or resolution, with 400, and an otherwise valid
\* request made while a credential is not configured with 500; in both cases
\* it has sent nothing upstream.
C26_RefusedWithoutUpstream ==
    (cpc = "done" /\ copRequest.route = "image") =>
        /\ BadImageParameters =>
              /\ copResponse.kind = "error" /\ copResponse.status = 400
              /\ copCalls = <<>>
        /\ (~BadImageParameters
              /\ ~(copRequest.clientId /\ copRequest.clientSecret)) =>
              /\ copResponse.kind = "error" /\ copResponse.status = 500
              /\ copCalls = <<>>

\* a request with a non-numeric lat and both credentials configured was
\* answered 400
C26_Witness ==
    /\ cpc = "done" /\ copRequest.route = "image"
    /\ copRequest.acquisitionTime # <<>> /\ copRequest.lat = <<NaN>>
    /\ copRequest.clientId /\ copRequest.clientSecret
    /\ copResponse.status = 400 /\ copCalls = <<>>

\* a valid request without the client secret was answered 500
C26_WitnessNoCredentials ==
    /\ cpc = "done" /\ copRequest.route = "image"
    /\ ~BadImageParameters
    /\ copRequest.clientId /\ ~copRequest.clientSecret
    /\ copResponse.status = 500 /\ copCalls = <<>>

----------------------------------------------------------------------------
(* Claims about the GIBS handler and its tile compositor *)

\* the request took the stitching branch and every issued fetch has settled
StitchSettled ==
    /\ gpc = "done"
    /\ Len(tilePromises) > 1
    /\ \A k \in DOMAIN tileState : tileState[k] # "pending"

TileFailed(k) == tileState[k] \in {"status", "error"}

\* the canvas cell of the k-th fetch of an n x n grid
CellOf(k, n) ==
    CHOOSE c \in gibsResponse.cells :
        /\ c.left = TileSize * ((k - 1) % n)
        /\ c.top = TileSize * ((k - 1) \div n)

\* side of the grid, from the number of fetches issued
GridSide == CHOOSE n \in 0..Len(tilePromises) : n * n = Len(tilePromises)

\* C5 (as claimed): when some but not all tile fetches of the grid fail, by
\* non-success status or by transport error, the response is a composite
\* image in which every failed tile is the placeholder; never an error.
C5_PartialFailureStillComposites ==
    (/\ StitchSettled
     /\ \E k \in DOMAIN tileState : TileFailed(k)
     /\ \E k \in DOMAIN tileState : ~TileFailed(k)) =>
        /\ gibsResponse.kind = "image"
        /\ \A k \in DOMAIN tileState :
              TileFailed(k) => CellOf(k, GridSide).src = Placeholder

\* C6 (as claimed): no response exists while a tile fetch of the request is
\* still in flight.
C6_ResponseOnlyAfterAllTiles ==
    gibsResponse.kind # "none" =>
        \A k \in DOMAIN tileState : tileState[k] # "pending"

\* C7 (as claimed): the compositor answers with a failure exactly when every
\* tile fetch of the grid failed.
C7_FailureIffTotalFailure ==
    StitchSettled =>
        ((gibsResponse.kind = "error") <=>
            (\A k \in DOMAIN tileState : TileFailed(k)))

NamedResolutions == {256, 512, 1024, 2048}

\* every issued tile fetch returned its bytes
HealthyTiles ==
    /\ tilePromises # <<>>
    /\ \A k \in DOMAIN tileState : tileState[k] = "ok"

\* C8: with healthy upstream tiles the image returned for a resolution r in
\* {256, 512, 1024, 2048} is r x r; for every r > 256 the canvas is the
\* grid of the fetched tiles, its side is the least multiple of 256 that is
\* at least r, and the image is resized to r x r.
C8_OutputDimensions ==
    (gpc = "done" /\ HealthyTiles) =>
        /\ gibsResponse.kind = "image"
        /\ resolution \in NamedResolutions =>
              gibsResponse.width = resolution /\ gibsResponse.height = resolution
        /\ resolution > TileSize =>
              /\ gibsResponse.canvas % TileSize = 0
              /\ gibsResponse.canvas >= resolution
              /\ gibsResponse.canvas - resolution < TileSize
              /\ gibsResponse.canvas * gibsResponse.canvas
                    = TileSize * TileSize * Len(tilePromises)
              /\ Cardinality(gibsResponse.cells) = Len(tilePromises)
              /\ gibsResponse.width = resolution
              /\ gibsResponse.height = resolution

\* a 2048 x 2048 image stitched from 64 healthy tiles
C8_Witness ==
    /\ gpc = "done" /\ HealthyTiles
    /\ resolution = 2048
    /\ Len(tilePromises) = 64
    /\ gibsResponse.kind = "image" /\ gibsResponse.width = 2048

\* a 256 x 256 image that is the single requested tile
C8_WitnessSingle ==
    /\ gpc = "done" /\ HealthyTiles
    /\ resolution = 256
    /\ gibsResponse.kind = "image" /\ gibsResponse.width = 256

FetchedX == {tilePromises[k][2] : k \in DOMAIN tilePromises}
FetchedY == {tilePromises[k][3] : k \in DOMAIN tilePromises}

\* the first fetch of the grid is floor(side / 2) tiles before the requested
\* tile in x and in y, and no fetch is before it
GridStartsHalfBefore ==
    /\ tilePromises[1] = Tile(z, x - GridSide \div 2, y - GridSide \div 2)
    /\ \A c \in FetchedX : c >= x - GridSide \div 2
    /\ \A r \in FetchedY : r >= y - GridSide \div 2

\* C9 (as claimed): the grid starts floor(tilesPerSide / 2) tiles before the
\* requested tile, and an even grid has one more column and one more row on
\* the positive side of the requested tile than on the negative side.
C9_ExtraTileOnPositiveSide ==
    Len(tilePromises) > 1 =>
        /\ GridStartsHalfBefore
        /\ GridSide % 2 = 0 =>
              /\ Cardinality({c \in FetchedX : c > x})
                    = Cardinality({c \in FetchedX : c < x}) + 1
              /\ Cardinality({r \in FetchedY : r > y})
                    = Cardinality({r \in FetchedY : r < y}) + 1

\* C9 (amended): the grid starts floor(tilesPerSide / 2) tiles before the
\* requested tile, and an even grid has one more column and one more row on
\* the negative (smaller-index) side of the requested tile than on the
\* positive side.
C9_ExtraTileOnNegativeSide ==
    Len(tilePromises) > 1 =>
        /\ GridStartsHalfBefore
        /\ GridSide % 2 = 0 =>
              /\ Cardinality({c \in FetchedX : c < x})
                    = Cardinality({c \in FetchedX : c > x}) + 1
              /\ Cardinality({r \in FetchedY : r < y})
                    = Cardinality({r \in FetchedY : r > y}) + 1

\* a 4 x 4 grid has been fanned out around tile (1, 1)
C9_Witness ==
    /\ gpc = "await"
    /\ Len(tilePromises) = 16
    /\ x = 1 /\ y = 1
    /\ FetchedX = (-1)..2

\* C10 (as claimed): a request with resolution <= 256 issues exactly one
\* tile fetch, for the requested (z, x, y), and returns its bytes unresized;
\* a request with resolution > 256 issues exactly ceil(resolution / 256)^2
\* fetches, one per distinct grid cell, the requested tile among them.
C10_FetchCount ==
    gpc = "done" =>
        /\ resolution <= TileSize =>
              /\ tilePromises = <<Tile(z, x, y)>>
              /\ tileState[1] = "ok" =>
                    /\ gibsResponse.kind = "image"
                    /\ gibsResponse.canvas = TileSize
                    /\ gibsResponse.width = gibsResponse.canvas
                    /\ gibsResponse.cells
                          = {[left |-> 0, top |-> 0, src |-> Tile(z, x, y)]}
        /\ resolution > TileSize =>
              /\ \E n \in 1..Len(tilePromises) :
                    /\ n * n = Len(tilePromises)
                    /\ TileSize * n >= resolution
                    /\ TileSize * (n - 1) < resolution
              /\ \A j, k \in DOMAIN tilePromises :
                    j # k => tilePromises[j] # tilePromises[k]
              /\ \E k \in DOMAIN tilePromises : tilePromises[k] = Tile(z, x, y)

\* the handler answered 400 'Missing tile coordinates (z, x, y)' and issued
\* no upstream fetch
RejectedForCoordinates ==
    gpc = "done" /\ gibsResponse = GibsError(400) /\ tilePromises = <<>>

\* C25 (as claimed): a request that carries none of z, x, y is rejected with
\* 400 before any upstream fetch, and a request that carries all three is
\* never rejected for its coordinates, zoom 0 tile 0/0 included.
C25_RejectIffCoordinatesAbsent ==
    gpc = "done" =>
        /\ (request.z = <<>> /\ request.x = <<>> /\ request.y = <<>>) =>
              RejectedForCoordinates
        /\ (request.z # <<>> /\ request.x # <<>> /\ request.y # <<>>) =>
              ~RejectedForCoordinates

\* the tile indices of zoom level z
TileIndices == 0..(2^z - 1)

\* C33 (as claimed): when the requested tile (x, y) of a stitched request is
\* a tile of zoom level z, every tile fetched for the grid is one too: no
\* negative or out-of-range index is requested upstream.
C33_GridWithinZoomLevel ==
    (Len(tilePromises) > 1 /\ x \in TileIndices /\ y \in TileIndices) =>
        \A k \in DOMAIN tilePromises :
           /\ tilePromises[k][2] \in TileIndices
           /\ tilePromises[k][3] \in TileIndices

\* the composite the results of the grid's fetches call for: the tile of grid
\* offset (dx, dy), or the placeholder when its fetch returned no bytes, at
\* pixel offset (256 * dx, 256 * dy)
CompositeOfResults ==
    LET n == GridSide
    IN  {[left |-> 256 * dx, top |-> 256 * dy,
          src |-> IF tileState[dy * n + dx + 1] = "ok"
                    THEN <<z, x - n \div 2 + dx, y - n \div 2 + dy,
                           request.date[1]>>
                    ELSE <<>>] : dx \in 0..(n - 1), dy \in 0..(n - 1)}

\* C21: once the fetches of a grid have settled, the response is determined
\* by the grid and the results of the fetches alone, whatever the order in
\* which they settled: whether it is an image does not depend on the order,
\* and the image has the tile fetched for grid offset (dx, dy) at pixel
\* offset (256 * dx, 256 * dy), rows from top to bottom
C21_CompositeIndependentOfOrder ==
    StitchSettled =>
        /\ (gibsResponse.kind = "image") <=>
              /\ \A k \in DOMAIN tileState : tileState[k] # "error"
              /\ sharpTakesRaw \/ \A k \in DOMAIN tileState : tileState[k] = "ok"
        /\ gibsResponse.kind = "image" =>
              gibsResponse.cells = CompositeOfResults
        /\ gibsResponse.kind # "image" => gibsResponse = GibsError(500)

\* a 2 x 2 grid whose second fetch returned no bytes, stitched into an image
C21_Witness ==
    /\ StitchSettled
    /\ Len(tilePromises) = 4
    /\ tileState = <<"ok", "status", "ok", "ok">>
    /\ gibsResponse.kind = "image"

\* a 2 x 2 grid of healthy tiles around tile (1, 0)
C21_WitnessHealthy ==
    /\ StitchSettled
    /\ Len(tilePromises) = 4 /\ HealthyTiles
    /\ x = 1 /\ y = 0
    /\ [left |-> 256, top |-> 256, src |-> <<z, 1, 0, request.date[1]>>]
          \in gibsResponse.cells

\* the page with Copernicus selected; the availability route answers with
\* one of its responses over a pool of two scenes, in every arrangement of
\* at most as many entries as the pool has scenes, or is unreachable
PageScenes ==
    {[datetime |-> <<getTimeOfDate(MaxDate) + 1>>, cloudCover |-> <<10>>],
     [datetime |-> <<>>, cloudCover |-> <<>>]}

PageReplies ==
    {Unreachable, FromCopernicus(CopError("Failed to fetch Catalog API", 500))}
      \cup {FromCopernicus(ScenesResponse(l)) :
               l \in UNION {[1..n -> PageScenes] :
                               n \in 0..Cardinality(PageScenes)}}

InitPageCopernicus ==
    /\ \E d \in Dates, f \in CloudFilters :
          PageWith("copernicus", DefaultCenter, d, f)
    /\ NasaIdle
    /\ GibsIdle
    /\ CopernicusIdle
    /\ ScanIdle
    /\ events = <<>>
    /\ appendFails = FALSE

NextPageCopernicus ==
    \/ ClickCheckWithin(MaxOps) \/ CopernicusCheckDoneWith(PageReplies)
    \/ ClickFetchWithin(MaxOps) \/ CopernicusFetchDone
    \/ SelectScene \/ SetCloudCoverFilter \/ SetDate

SpecPageCopernicus == InitPageCopernicus /\ [][NextPageCopernicus]_vars

\* the page with provider A selected; the route answers with the image, with
\* the error of a failed imagery fetch, with the 404 payload for any window
\* list and closest date the handler can hold, or is unreachable
NasaReplies ==
    {Unreachable}
      \cup {FromNasa(ImageResponse(d, l)) : d \in Dates, l \in DateLists}
      \cup {FromNasa(ImageErrorResponse(st)) : st \in ErrorStatuses \cup {500}}
      \cup {FromNasa(UnavailableResponse(l, c)) :
              l \in DateLists, c \in {NULL} \cup Dates}

InitPageNasa ==
    /\ \E d \in Dates : PageWith("nasa", DefaultCenter, d, DefaultCloudCoverFilter)
    /\ NasaIdle
    /\ GibsIdle
    /\ CopernicusIdle
    /\ ScanIdle
    /\ events = <<>>
    /\ appendFails = FALSE

NextPageNasa ==
    ClickCheckWithin(MaxOps) \/ NasaCheckDoneWith(NasaReplies) \/ SetDate

SpecPageNasa == InitPageNasa /\ [][NextPageNasa]_vars

\* the page with provider A selected and one check more in flight than
\* elsewhere; the route answers with the image, with the error of a failed
\* imagery fetch, with the 404 payload, or is unreachable
NextOverlap ==
    \/ ClickCheckWithin(MaxOps + 1)
    \/ NasaCheckDoneWith({Unreachable,
                          FromNasa(ImageResponse(NULL, <<>>)),
                          FromNasa(ImageErrorResponse(500)),
                          FromNasa(UnavailableResponse(<<>>, NULL))})
    \/ SetDate

SpecOverlap == InitPageNasa /\ [][NextOverlap]_vars

\* the page with any provider selected and one run more in flight than
\* elsewhere, so that a check and a fetch (or two fetches, were the button
\* left enabled) can overlap; every route answers or is unreachable
NextFetch ==
    \/ ClickFetchWithin(MaxOps + 1)
    \/ ClickCheckWithin(MaxOps + 1)
    \/ NasaFetchDone
    \/ NasaCheckDoneWith({Unreachable, FromNasa(ImageResponse(NULL, <<>>))})
    \/ CopernicusFetchDone
    \/ CopernicusCheckDoneWith(
          {Unreachable,
           FromCopernicus(ScenesResponse(
              <<[datetime |-> <<getTimeOfDate(MaxDate) + 1>>,
                 cloudCover |-> <<10>>]>>))})
    \/ GibsDatesDoneWith({<<>>}) \/ GibsRouteReceive \/ GibsSingle
    \/ GibsTileDone \/ GibsTileUnreachable

InitFetch == InitPageNasa \/ InitPageCopernicus \/ InitPageGibs

\* every request a run of handleFetchImage awaits is answered or fails (the
\* stage at which the run waits changes), and the GIBS route finishes the
\* request it serves: the fetches of the browser and the route settle
\* whatever else the page is doing
SpecFetch ==
    /\ InitFetch
    /\ [][NextFetch]_vars
    /\ WF_vars(/\ NextFetch
               /\ fetchingImage
               /\ {ops'[i].stage :
                      i \in {j \in DOMAIN ops' : ops'[j].kind = "fetch"}}
                    # {ops[i].stage :
                         i \in {j \in DOMAIN ops : ops[j].kind = "fetch"}})
    /\ WF_vars(GibsSingle)
    /\ WF_vars(GibsTileDone)

----------------------------------------------------------------------------
(* The continuations of a check on their own *)

\* the lists of one to n entries of S
ListsOf(S, n) == UNION {[1..k -> S] : k \in 1..n}

\* lists of scenes that differ in their instant, and of scenes that differ
\* in their cloud cover
SceneLists ==
    LET TimedScenes ==
            {[datetime |-> t, cloudCover |-> <<10>>] : t \in Param(Timestamps)}
        CloudedScenes ==
            {[datetime |-> <<getTimeOfDate(1)>>, cloudCover |-> c] :
                c \in Param(CloudCovers)}
    IN  ListsOf(TimedScenes, MaxScenes) \cup ListsOf(CloudedScenes, MaxScenes)

InitScan ==
    /\ \E d \in Dates :
          \/ \E l \in SceneLists, f \in CloudFilters :
                job = Job("scenes", l, <<>>, d, f)
          \/ \E l \in DateLists : job = Job("dates", <<>>, l, d, 0)
    /\ result = NoResult
    /\ NasaIdle
    /\ GibsIdle
    /\ CopernicusIdle
    /\ PageIdle
    /\ events = <<>>
    /\ appendFails = FALSE

\* the Copernicus continuation on an answer with scenes: filter, then scan
FilterAndSelect ==
    /\ job.kind = "scenes" /\ ~result.done
    /\ LET filtered == filter(job.scenes, job.threshold)
       IN  result' = Result(TRUE, filtered,
                            IF Len(filtered) > 0
                              THEN <<closestScene(filtered, job.date)>>
                              ELSE <<>>,
                            <<>>)
    /\ UNCHANGED <<job, nasaVars, gibsVars, copVars, uiVars, events,
                   appendFails>>

\* the GIBS continuation on an ok answer of the dates lookup
ResolveDate ==
    /\ job.kind = "dates" /\ ~result.done
    /\ result' = Result(TRUE, <<>>, <<>>,
                        actualDateOf(Reply("ok", 200, <<>>, job.dates, <<>>),
                                     job.date))
    /\ UNCHANGED <<job, nasaVars, gibsVars, copVars, uiVars, events,
                   appendFails>>

NextScan == FilterAndSelect \/ ResolveDate

SpecScan == InitScan /\ [][NextScan]_vars

----------------------------------------------------------------------------
(* Claims about the page with GIBS selected *)

\* the runs of the page's handlers whose tile request is issued
TileRuns == {i \in DOMAIN ops : ops[i].stage \in {"tile", "served"}}

\* C12: every tile request of the page is addressed with the date that was
\* requested when the run was started, and every tile the GIBS handler
\* fetches for it (the single tile, or each tile of the grid) carries that
\* date, whatever date the lookup has left in gibsActualDate
C12_TileFetchUsesRequestedDate ==
    \A i \in TileRuns :
       /\ ops[i].req.tileUrl.date = ops[i].date
       /\ ops[i].stage = "served" =>
             \A k \in DOMAIN tilePromises : tilePromises[k][4] = ops[i].date

\* a check whose lookup resolved another date than the requested one, and
\* whose single tile the handler has fetched
C12_Witness ==
    \E i \in TileRuns :
       /\ ops[i].kind = "check" /\ ops[i].stage = "served"
       /\ gpc = "done" /\ Len(tilePromises) = 1
       /\ gibsActualDate # <<>> /\ gibsActualDate # <<ops[i].date>>

\* a click on the preview whose grid the handler has fetched while the
\* actual date on the page is another date
C12_WitnessGrid ==
    \E i \in TileRuns :
       /\ ops[i].kind = "preview" /\ ops[i].stage = "served"
       /\ Len(tilePromises) > 1
       /\ gibsActualDate # <<>> /\ gibsActualDate # <<ops[i].date>>

\* the dates lookup of a run has just answered
LookupAnswered == completed.op.source = "gibs" /\ completed.op.stage = "dates"

\* the tile request of the run whose lookup has just answered is in flight
TileRequestIssued ==
    \E i \in DOMAIN ops :
       /\ ops[i].stage = "tile"
       /\ ops[i].tileUrl = completed.op.tileUrl
       /\ ops[i].req.to = "tile" /\ ops[i].req.tileUrl = completed.op.tileUrl

\* C27: when the dates lookup answers, gibsActualDate is an entry of the
\* published list if the lookup returned a non-empty list, the requested date
\* if it returned a non-success status or an empty list, and unset if it
\* threw; in all three cases the tile request is issued next.
C27_ActualDateAfterLookup ==
    LookupAnswered =>
        LET r == completed.reply
        IN  /\ (r.type = "ok" /\ r.dates # <<>>) =>
                  /\ gibsActualDate # <<>>
                  /\ \E k \in DOMAIN r.dates : gibsActualDate[1] = r.dates[k]
            /\ (r.type = "status" \/ (r.type = "ok" /\ r.dates = <<>>)) =>
                  gibsActualDate = <<completed.op.date>>
            /\ r.type = "throw" => gibsActualDate = <<>>
            /\ TileRequestIssued

\* the lookup published a date other than the requested one
C27_Witness ==
    /\ LookupAnswered
    /\ completed.reply.type = "ok" /\ completed.reply.dates # <<>>
    /\ gibsActualDate # <<completed.op.date>>
    /\ TileRequestIssued

\* the lookup threw and the tile request is in flight
C27_WitnessThrew ==
    LookupAnswered /\ completed.reply.type = "throw" /\ TileRequestIssued

\* the lookup was answered with a non-success status
C27_WitnessStatus ==
    /\ LookupAnswered /\ completed.reply.type = "status"
    /\ gibsActualDate = <<completed.op.date>>

\* C34 (as claimed): whenever a preview tile is displayed, the 'Tile URL'
\* printed under it (built from the current date and map centre) is the URL
\* the preview was fetched from.
C34_ShownUrlIsFetchedUrl ==
    (source = "gibs" /\ gibsPreviewUrl # <<>>) =>
        gibsPreviewUrl[1] = TileUrl(uiDate, center, <<>>)

\* a point of the tile conversion's domain: within +-90/+-180 degrees and
\* not a pole
InDomain(c) == c.lat \in -89..89 /\ c.lon \in -180..180

\* C20: no tile request is built from a point whose latitude is outside
\* [-90, 90] (or a pole) or whose longitude is outside [-180, 180]
C20_NoTileFromInvalidPoint ==
    \A i \in DOMAIN ops :
       ops[i].tileUrl # NoTileUrl => InDomain(ops[i].center)

----------------------------------------------------------------------------
(* Claims about the closest-date scan and the cloud cover filter *)

\* |a - b| of two instants
Distance(a, b) == IF a >= b THEN a - b ELSE b - a

\* entry k of times is as close to t as any entry, and closer than every
\* entry before it
IsFirstClosest(times, k, t) ==
    /\ k \in DOMAIN times
    /\ \A j \in DOMAIN times : Distance(times[j], t) >= Distance(times[k], t)
    /\ \A j \in 1..(k - 1) : Distance(times[j], t) > Distance(times[k], t)

\* every scene of the list carries an instant
AllTimed(scenes) == \A i \in DOMAIN scenes : scenes[i].datetime # <<>>

C11_WitnessDates ==
    /\ result.done /\ job.kind = "dates"
    /\ Len(job.dates) >= 2 /\ job.dates[1] # job.dates[2]
    /\ result.actualDate = <<job.dates[2]>>
    /\ job.dates[2] # job.date

\* the cloud cover a scene counts with
CoverOf(scene) ==
    IF scene.cloudCover = <<>> THEN 100 ELSE scene.cloudCover[1]

\* the positions of the catalog scenes within the threshold
Kept == {i \in DOMAIN job.scenes : CoverOf(job.scenes[i]) <= job.threshold}

\* the m-th position of Kept in catalog order
KeptAt(m) == CHOOSE i \in Kept : Cardinality({j \in Kept : j <= i}) = m

\* C13: the filtered scene list consists of exactly the catalog scenes whose
\* cloud cover (100 when the scene has none) is <= the threshold, in catalog
\* order
C13_FilterKeepsWithinThreshold ==
    (result.done /\ job.kind = "scenes") =>
        /\ Len(result.filtered) = Cardinality(Kept)
        /\ \A m \in DOMAIN result.filtered :
              result.filtered[m] = job.scenes[KeptAt(m)]

\* C36 (as claimed): the cloud cover limit of the process request is not
\* stricter than the threshold the check filtered with, so the scene the
\* check selects (and every scene offered for selection) is within the limit
\* of the image request.
C36_LimitCoversThreshold ==
    (result.done /\ job.kind = "scenes") =>
        /\ job.threshold <= maxCloudCoverage
        /\ \A m \in DOMAIN result.filtered :
              CoverOf(result.filtered[m]) <= maxCloudCoverage
        /\ result.selected # <<>> =>
              CoverOf(result.selected[1]) <= maxCloudCoverage

\* cloud covers 10, 50, 90 with threshold 40 give the scene of cover 10
C13_Witness ==
    /\ result.done /\ job.kind = "scenes"
    /\ Len(job.scenes) = 3
    /\ [i \in 1..3 |-> job.scenes[i].cloudCover] = <<<<10>>, <<50>>, <<90>>>>
    /\ job.threshold = 40
    /\ result.filtered = <<job.scenes[1]>>

\* a scene without cloud cover passes the threshold 100 and no other
C13_WitnessMissing ==
    /\ result.done /\ job.kind = "scenes"
    /\ Len(job.scenes) = 2
    /\ job.scenes[1].cloudCover = <<>> /\ job.scenes[2].cloudCover = <<90>>
    /\ job.threshold = 100
    /\ result.filtered = job.scenes

\* cloud covers 10, 50, 90 with threshold 5 give the empty list
C13_WitnessEmpty ==
    /\ result.done /\ job.kind = "scenes"
    /\ Len(job.scenes) = 3
    /\ [i \in 1..3 |-> job.scenes[i].cloudCover] = <<<<10>>, <<50>>, <<90>>>>
    /\ job.threshold = 5
    /\ result.filtered = <<>>

----------------------------------------------------------------------------
(* Claims about the page with Copernicus selected *)

\* the last step completed a Copernicus availability check
CheckCompleted ==
    completed.op.kind = "check" /\ completed.op.source = "copernicus"

\* ... whose answer was a catalog without scenes
NoScenesReturned ==
    CheckCompleted /\ completed.reply.type = "ok"
      /\ completed.reply.scenes = <<>>

\* ... whose answer had scenes, all above the threshold of the check
AllScenesExcluded ==
    /\ CheckCompleted /\ completed.reply.type = "ok"
    /\ completed.reply.scenes # <<>>
    /\ \A i \in DOMAIN completed.reply.scenes :
          CoverOf(completed.reply.scenes[i]) > completed.op.cloudCoverFilter

\* C14: a check whose catalog returned no scenes and a check whose scenes
\* were all excluded by the cloud cover filter are reported with two
\* different messages, and both leave no scene selected and the list of
\* available scenes empty
C14_NoScenesAndFilteredOutDiffer ==
    /\ NoScenesReturned =>
          /\ errorMsg = "No imagery available for this date/location."
          /\ selectedScene = <<>> /\ availableScenes = <<>>
    /\ AllScenesExcluded =>
          /\ errorMsg = "No scenes match the cloud cover filter."
          /\ selectedScene = <<>> /\ availableScenes = <<>>

\* a check with threshold 5 whose answer had a scene of cloud cover 10
C14_Witness ==
    /\ AllScenesExcluded
    /\ completed.op.cloudCoverFilter = 5
    /\ \E i \in DOMAIN completed.reply.scenes :
          CoverOf(completed.reply.scenes[i]) = 10

\* a check that found no scenes
C14_WitnessNoScenes == NoScenesReturned /\ returned # {}

\* C15 (as claimed): a check that failed for an upstream error (the route
\* answered with a non-success status, or was not reached) never shows the
\* message of a check that validly found nothing
C15_ErrorDiffersFromEmpty ==
    (CheckCompleted /\ completed.reply.type \in {"status", "throw"}) =>
        errorMsg # "No imagery available for this date/location."

\* the image requests of the page to provider B that are issued
ImageRuns ==
    {i \in DOMAIN ops : ops[i].req.to = "fetch-copernicus-image"}

\* C18: every image request issued to provider B carries an acquisitionTime,
\* which is the datetime of a scene returned by an availability check; no
\* request is issued while no scene with a datetime is selected
C18_FetchOnlyReturnedScene ==
    /\ \A i \in ImageRuns :
          /\ ops[i].req.acquisitionTime # <<>>
          /\ \E s \in returned : s.datetime = ops[i].req.acquisitionTime
    /\ (/\ source = "copernicus"
        /\ (selectedScene = <<>> \/ selectedScene[1].datetime = <<>>)) =>
          ~ENABLED ClickFetchWithin(MaxOps)

\* an image request in flight for the selected scene
C18_Witness ==
    /\ ImageRuns # {}
    /\ selectedScene # <<>>
    /\ \A i \in ImageRuns :
          ops[i].req.acquisitionTime = selectedScene[1].datetime

\* a scene without datetime is selected and Fetch Image is disabled
C18_WitnessNoDatetime ==
    /\ selectedScene # <<>> /\ selectedScene[1].datetime = <<>>
    /\ FetchDisabled

\* the scenes of the answer of the check just completed that pass the
\* threshold the check captured
FilteredOfCheck ==
    {completed.reply.scenes[k] : k \in
        {i \in DOMAIN completed.reply.scenes :
            CoverOf(completed.reply.scenes[i]) <= completed.op.cloudCoverFilter}}

\* C31 (as claimed): when a provider B availability check completes, with
\* scenes, without scenes or with an error, the selected scene is none or one
\* of the scenes of that check's filtered result; no scene selected by an
\* earlier check stays selected.
C31_SelectionFromLastCheck ==
    CheckCompleted =>
        (selectedScene = <<>> \/ selectedScene[1] \in FilteredOfCheck)

----------------------------------------------------------------------------
(* Claims about the page with provider A selected *)

\* a check has just been answered with the 404 payload
UnavailableAnswered ==
    /\ completed.op.kind = "check" /\ completed.op.source = "nasa"
    /\ completed.reply.type = "status" /\ completed.reply.status = 404

\* the distinct candidate dates of the payload
Candidates == {completed.reply.dates[k] : k \in DOMAIN completed.reply.dates}

\* a is the candidate date next before b
NeighbourBefore(a, b) ==
    a \in Candidates /\ a < b /\ \A c \in Candidates : ~(a < c /\ c < b)

\* a is the candidate date next after b
NeighbourAfter(a, b) ==
    a \in Candidates /\ a > b /\ \A c \in Candidates : ~(b < c /\ c < a)

\* C28 (as claimed): after an unavailable payload with at least two distinct
\* candidate dates the page has set the previous or the next available date
\* (or both), and each one it has set is the immediate chronological
\* neighbour of the payload's closestDate among the candidate dates.
C28_NeighboursOfClosest ==
    (UnavailableAnswered /\ Cardinality(Candidates) >= 2) =>
        /\ prevAvailable # <<>> \/ nextAvailable # <<>>
        /\ prevAvailable # <<>> =>
              /\ completed.reply.closest # <<>>
              /\ NeighbourBefore(prevAvailable[1], completed.reply.closest[1])
        /\ nextAvailable # <<>> =>
              /\ completed.reply.closest # <<>>
              /\ NeighbourAfter(nextAvailable[1], completed.reply.closest[1])

----------------------------------------------------------------------------
(* Claims about the handlers' logging *)

\* the handler serving the request has returned its response
Answered == pc = "done" \/ gpc = "done" \/ cpc = "done"

\* the upstream fetches among the events
Fetches == {i \in DOMAIN events : events[i][1] = "fetch"}

\* C24 (as claimed): every upstream fetch of a handler has a log entry
\* before it, and is followed by a log entry before the next upstream fetch
\* and before the response is returned.
C24_FetchesLogged ==
    \A i \in Fetches :
       /\ \E j \in 1..(i - 1) : events[j][1] = "log"
       /\ i < Len(events) => events[i + 1][1] = "log"
       /\ Answered => i < Len(events)

\* what the page displays of a check
display ==
    <<availability, errorMsg, uiAvailableDates, uiClosestDate, prevAvailable,
      nextAvailable, availableScenes, selectedScene, gibsPreviewUrl,
      gibsPreviewError>>

\* the last step completed a check that was triggered after a check that is
\* still in flight, and this step completes the latter as the last one
EarlierCheckArrivesLast ==
    /\ completed.op.kind = "check" /\ completed.index > 1
    /\ Len(ops) = 1 /\ ops' = <<>>
    /\ completed'.op.kind = "check" /\ completed'.index < completed.index

\* C32 (as claimed): when a check is triggered before an earlier check has
\* finished and the answer of the later one arrives first, the displayed
\* availability state is still the result of the later check once the earlier
\* one has finished too.
C32_LaterCheckWins == [][EarlierCheckArrivesLast => UNCHANGED display]_vars

----------------------------------------------------------------------------
(* Claims about Fetch Image with any provider *)

\* the runs of handleFetchImage in flight
FetchRuns == {i \in DOMAIN ops : ops[i].kind = "fetch"}

\* C35: while the fetching flag is set exactly one run of Fetch Image is in
\* flight (the button starts no second one), and once the requests of that
\* run are answered - image, non-success status or rejected fetch, for each
\* provider - the flag is reset to false.
C35_FetchingFlagReset ==
    /\ [](fetchingImage => Cardinality(FetchRuns) = 1)
    /\ [](Cardinality(FetchRuns) <= 1)
    /\ (fetchingImage ~> ~fetchingImage)

\* a fetch was answered while a check was still in flight, and the flag is
\* reset
C35_Witness ==
    /\ completed.op.kind = "fetch" /\ completed.reply.type = "status"
    /\ ~fetchingImage
    /\ Len(ops) = 1

----------------------------------------------------------------------------
(* Claims about a failing log file *)

\* a step of a handler as it is taken when every append succeeds
HandlerStep == NextNasa \/ NextGrid \/ NextCopernicus

C37_WitnessCopernicus ==
    /\ appendFails
    /\ cpc = "done" /\ copResponse.status = 500
    /\ Cardinality(Fetches) >= 1

\* the GIBS route served a stitched image while the log file took no append
C37_WitnessGibs ==
    /\ appendFails
    /\ gpc = "done" /\ gibsResponse.status = 200
    /\ Cardinality(Fetches) > 1

====
